---- MODULE Spec2Model ----
(***************************************************************************)
(* nomonic: detection of runs of BIP39 vocabulary words in text.           *)
(*                                                                         *)
(* A JavaScript string is modelled as a sequence of characters, each       *)
(* character a one-character TLA+ string, so that tokenisation, stripping  *)
(* and lowercasing are computed character by character as the code does.   *)
(***************************************************************************)
EXTENDS Integers, Sequences, FiniteSets, TLC

VARIABLES
    pc,          \* position of the caller: "start" before the call, "done" after
    toks,        \* the tokens the input text was assembled from (names of TokenText)
    seps,        \* the separators written between them (names of SepText)
    content,     \* the string handed to detectBip39Sequences
    threshold,   \* the threshold handed to detectBip39Sequences
    violations,  \* the list detectBip39Sequences returned
    addedLines,  \* the added lines of a staged diff handed to buildContentBlock
    lineMap,     \* the lineMap buildContentBlock returned
    calls,       \* the earlier calls of detectBip39Sequences: content, threshold
                 \* and returned list of each, in order
    diff,        \* the unified diff of a staged file handed to extractAddedLines
    files,       \* the files a run of a command line tool goes through
    fileIndex,   \* the file of files the run is at (from 1)
    allViolations, \* the violations the run has collected, each with its file
    jsonOutput,  \* scan-repo was started with --json
    exitCode,    \* the status the run exited with, -1 while it has not
    report,      \* the violations the run has printed
    packageJson, \* the project has a package.json
    huskyDir,    \* the project has a .husky directory
    hookFiles,   \* the pre-commit hook before the first run of setup.sh and
                 \* after each run, in order
    BIP39_THRESHOLD  \* the environment variable of that name, or UNSET

vars ==
    <<pc, toks, seps, content, threshold, violations, addedLines, lineMap,
      calls, diff, files, fileIndex, allViolations, jsonOutput, exitCode,
      report, packageJson, huskyDir, hookFiles, BIP39_THRESHOLD>>

\* an environment variable that is not set
UNSET == <<"unset">>

\* the variables of a run of a command line tool
runVars ==
    <<files, fileIndex, allViolations, jsonOutput, exitCode, report,
      BIP39_THRESHOLD>>

\* no command line tool is running: the functions are called directly
NoRun ==
    /\ files = <<>>
    /\ fileIndex = 0
    /\ allViolations = <<>>
    /\ jsonOutput = FALSE
    /\ exitCode = -1
    /\ report = <<>>
    /\ BIP39_THRESHOLD = UNSET

\* the variables of the runs of setup.sh
setupVars == <<packageJson, huskyDir, hookFiles>>

\* setup.sh is not run
NoSetup ==
    /\ packageJson = FALSE
    /\ huskyDir = FALSE
    /\ hookFiles = <<>>

---------------------------------------------------------------------------
(* Characters *)

LowerLetters ==
    {"a","b","c","d","e","f","g","h","i","j","k","l","m",
     "n","o","p","q","r","s","t","u","v","w","x","y","z"}

UpperLetters ==
    {"A","B","C","D","E","F","G","H","I","J","K","L","M",
     "N","O","P","Q","R","S","T","U","V","W","X","Y","Z"}

LowerOf ==
    [c \in UpperLetters |->
        CASE c = "A" -> "a" [] c = "B" -> "b" [] c = "C" -> "c" [] c = "D" -> "d"
          [] c = "E" -> "e" [] c = "F" -> "f" [] c = "G" -> "g" [] c = "H" -> "h"
          [] c = "I" -> "i" [] c = "J" -> "j" [] c = "K" -> "k" [] c = "L" -> "l"
          [] c = "M" -> "m" [] c = "N" -> "n" [] c = "O" -> "o" [] c = "P" -> "p"
          [] c = "Q" -> "q" [] c = "R" -> "r" [] c = "S" -> "s" [] c = "T" -> "t"
          [] c = "U" -> "u" [] c = "V" -> "v" [] c = "W" -> "w" [] c = "X" -> "x"
          [] c = "Y" -> "y" [] c = "Z" -> "z"]

\* toLowerCase leaving every character as it is
toLowerCase_identity(s) == s

\* String.prototype.toLowerCase on ASCII text
toLowerCase(s) ==
    [k \in 1..Len(s) |-> IF s[k] \in UpperLetters THEN LowerOf[s[k]] ELSE s[k]]

\* the characters the regular expression \s matches, among those of the model
Whitespace == {" ", "\t"}

\* the regular expression [a-z]
IsAlpha(c) == c \in LowerLetters


---------------------------------------------------------------------------
(* String helpers of the JavaScript runtime *)

\* s.slice(from, to) with 0-based from (inclusive) and to (exclusive)
Slice(s, from, to) ==
    IF to <= from THEN <<>> ELSE SubSeq(s, from + 1, to)

RECURSIVE SplitFrom(_, _, _)
\* the pieces of s from position from on, one step for each piece
SplitFrom(s, sep, from) ==
    LET later == {k \in from..Len(s) : s[k] = sep}
    IN  IF later = {} THEN <<SubSeq(s, from, Len(s))>>
        ELSE LET k == CHOOSE k \in later : \A m \in later : k <= m
             IN  <<SubSeq(s, from, k - 1)>> \o SplitFrom(s, sep, k + 1)

\* s.split(sep) for a one-character separator
SplitOn(s, sep) == SplitFrom(s, sep, 1)

RECURSIVE SplitWsFrom(_, _, _)
SplitWsFrom(s, from, k) ==
    IF k > Len(s) THEN (IF from = k THEN <<>> ELSE <<SubSeq(s, from, k - 1)>>)
    ELSE IF s[k] \in Whitespace
         THEN (IF from = k THEN <<>> ELSE <<SubSeq(s, from, k - 1)>>)
              \o SplitWsFrom(s, k + 1, k + 1)
         ELSE SplitWsFrom(s, from, k + 1)

\* s.split(/\s+/).filter(Boolean): the maximal whitespace-free substrings
SplitWs(s) == SplitWsFrom(s, 1, 1)

\* line.split(/\s+/).filter(Boolean).map((t) => t.toLowerCase())
Tokens(line) ==
    LET raw == SplitWs(line)
    IN  [k \in 1..Len(raw) |-> toLowerCase(raw[k])]

\* line.trim().length === 0
IsBlank(line) == \A k \in 1..Len(line) : line[k] \in Whitespace

\* arr.slice(-n) for n >= 0: the last n elements; slice(-0) is slice(0), the
\* whole array
SliceLast(arr, n) ==
    IF n = 0 \/ n >= Len(arr) THEN arr
    ELSE SubSeq(arr, Len(arr) - n + 1, Len(arr))

---------------------------------------------------------------------------
(* detect.ts *)

\* The vocabulary: the members of the 2048-word BIP39 English wordlist among
\* the words the model's inputs can contain (membership is all the detector
\* asks of it).  Of the ten annotation labels the wordlist holds "key",
\* "phrase", "secret", "seed" and "word", and does not hold "backup",
\* "mnemonic", "passphrase", "recovery" and "words"; it does not hold "skip",
\* "the" or "null" either.
BIP39_WORDS ==
    { <<"a","c","t">>, <<"a","d","d">>, <<"z","o","o">>,
      <<"k","e","y">>, <<"p","h","r","a","s","e">>, <<"s","e","c","r","e","t">>,
      <<"s","e","e","d">>, <<"w","o","r","d">> }

\* ANNOTATION_TOKENS with the label "key" left out
ANNOTATION_TOKENS_noKey ==
    { <<"w","o","r","d">>, <<"w","o","r","d","s">>,
      <<"m","n","e","m","o","n","i","c">>, <<"s","e","e","d">>,
      <<"p","h","r","a","s","e">>,
      <<"b","a","c","k","u","p">>, <<"r","e","c","o","v","e","r","y">>,
      <<"s","e","c","r","e","t">>,
      <<"p","a","s","s","p","h","r","a","s","e">> }

ANNOTATION_TOKENS ==
    { <<"w","o","r","d">>, <<"w","o","r","d","s">>,
      <<"m","n","e","m","o","n","i","c">>, <<"s","e","e","d">>,
      <<"p","h","r","a","s","e">>, <<"k","e","y">>,
      <<"b","a","c","k","u","p">>, <<"r","e","c","o","v","e","r","y">>,
      <<"s","e","c","r","e","t">>,
      <<"p","a","s","s","p","h","r","a","s","e">> }

\* the string 'skip', which stripToken returns for a token without a letter
SKIP == <<"s","k","i","p">>

\* the value null, which stripToken returns for a core with a non-letter in it;
\* it is no string
NULL == <<"null">>

RECURSIVE FirstAlphaFrom(_, _)
FirstAlphaFrom(token, k) ==
    IF k > Len(token) THEN -1
    ELSE IF IsAlpha(token[k]) THEN k - 1
    ELSE FirstAlphaFrom(token, k + 1)

\* token.search(/[a-z]/): the 0-based index of the first letter, or -1
SearchAlpha(token) == FirstAlphaFrom(token, 1)

RECURSIVE LastAlphaFrom(_, _, _)
\* while (end >= start && !/[a-z]/.test(token[end])) end--
LastAlphaFrom(token, start, end) ==
    IF end >= start /\ ~IsAlpha(token[end + 1])
    THEN LastAlphaFrom(token, start, end - 1)
    ELSE end

\* let end = token.length - 1, then the loop
LastAlpha(token, start) == LastAlphaFrom(token, start, Len(token) - 1)

\* stripToken answering null for a token without a letter
stripToken_skipAsNull(token) ==
    LET start == SearchAlpha(token)
    IN  IF start = -1 THEN NULL
        ELSE LET end  == LastAlpha(token, start)
                 core == Slice(token, start, end + 1)
             IN  IF \E k \in 1..Len(core) : ~IsAlpha(core[k]) THEN NULL
                 ELSE core

\* stripToken answering 'skip' where it should answer null
stripToken_nullAsSkip(token) ==
    LET start == SearchAlpha(token)
    IN  IF start = -1 THEN SKIP
        ELSE LET end  == LastAlpha(token, start)
                 core == Slice(token, start, end + 1)
             IN  IF \E k \in 1..Len(core) : ~IsAlpha(core[k]) THEN SKIP
                 ELSE core

stripToken(token) ==
    LET start == SearchAlpha(token)
    IN  IF start = -1 THEN SKIP
        ELSE LET end  == LastAlpha(token, start)
                 core == Slice(token, start, end + 1)
             IN  IF \E k \in 1..Len(core) : ~IsAlpha(core[k]) THEN NULL
                 ELSE core

RECURSIVE analyzeTokens(_, _, _)
\* the loop of analyzeLine over tokens[j..]: acc holds bip39Words,
\* hasNonBip39Word and hasAnyWord
analyzeTokens(tokens, j, acc) ==
    IF j > Len(tokens) THEN acc
    ELSE LET stripped == stripToken(tokens[j])
         IN  IF stripped = SKIP THEN analyzeTokens(tokens, j + 1, acc)
             ELSE IF stripped # NULL /\ stripped \in ANNOTATION_TOKENS
                  THEN analyzeTokens(tokens, j + 1, acc)
             ELSE IF stripped # NULL /\ stripped \in BIP39_WORDS
                  THEN analyzeTokens(tokens, j + 1,
                           [acc EXCEPT !.hasAnyWord = TRUE,
                                       !.bip39Words = Append(@, stripped)])
             ELSE analyzeTokens(tokens, j + 1,
                           [acc EXCEPT !.hasAnyWord = TRUE,
                                       !.hasNonBip39Word = TRUE])

analyzeLine(line) ==
    LET tokens == Tokens(line)
    IN  IF Len(tokens) = 0 THEN [bip39Words |-> <<>>, isBip39Pure |-> FALSE]
        ELSE LET acc == analyzeTokens(tokens, 1,
                            [bip39Words |-> <<>>, hasNonBip39Word |-> FALSE,
                             hasAnyWord |-> FALSE])
             IN  [bip39Words  |-> acc.bip39Words,
                  isBip39Pure |-> acc.hasAnyWord /\ ~acc.hasNonBip39Word]

\* the record pushed on violations; i is the 0-based line index
Violation(i, words, line) ==
    [lineNumber |-> i + 1, matchedWords |-> words, line |-> line]

\* Pass1Token without the test for annotation labels
Pass1Token_noAnnotation(st, token, i, line, T) ==
    LET stripped == stripToken(token)
    IN  IF stripped = SKIP THEN st
        ELSE IF stripped # NULL /\ stripped \in BIP39_WORDS
             THEN [st EXCEPT !.consecutive = @ + 1,
                             !.matchedWords = Append(@, stripped)]
        ELSE LET hit == st.consecutive >= T
             IN  [consecutive   |-> 0,
                  matchedWords  |-> <<>>,
                  violations    |->
                      IF hit
                      THEN Append(st.violations,
                               Violation(i, SliceLast(st.matchedWords,
                                                      st.consecutive), line))
                      ELSE st.violations,
                  reportedLines |->
                      IF hit THEN st.reportedLines \cup {i}
                      ELSE st.reportedLines]

\* Pass1Token leaving consecutive and matchedWords as they are at a break
Pass1Token_noReset(st, token, i, line, T) ==
    LET stripped == stripToken(token)
    IN  IF stripped = SKIP THEN st
        ELSE IF stripped # NULL /\ stripped \in ANNOTATION_TOKENS THEN st
        ELSE IF stripped # NULL /\ stripped \in BIP39_WORDS
             THEN [st EXCEPT !.consecutive = @ + 1,
                             !.matchedWords = Append(@, stripped)]
        ELSE LET hit == st.consecutive >= T
             IN  [consecutive   |-> st.consecutive,
                  matchedWords  |-> st.matchedWords,
                  violations    |->
                      IF hit
                      THEN Append(st.violations,
                               Violation(i, SliceLast(st.matchedWords,
                                                      st.consecutive), line))
                      ELSE st.violations,
                  reportedLines |->
                      IF hit THEN st.reportedLines \cup {i}
                      ELSE st.reportedLines]

\* Pass1Token putting annotation labels into matchedWords without counting
\* them
Pass1Token_labelsBuffered(st, token, i, line, T) ==
    LET stripped == stripToken(token)
    IN  IF stripped = SKIP THEN st
        ELSE IF stripped # NULL /\ stripped \in ANNOTATION_TOKENS
             THEN [st EXCEPT !.matchedWords = Append(@, stripped)]
        ELSE IF stripped # NULL /\ stripped \in BIP39_WORDS
             THEN [st EXCEPT !.consecutive = @ + 1,
                             !.matchedWords = Append(@, stripped)]
        ELSE LET hit == st.consecutive >= T
             IN  [consecutive   |-> 0,
                  matchedWords  |-> <<>>,
                  violations    |->
                      IF hit
                      THEN Append(st.violations,
                               Violation(i, SliceLast(st.matchedWords,
                                                      st.consecutive), line))
                      ELSE st.violations,
                  reportedLines |->
                      IF hit THEN st.reportedLines \cup {i}
                      ELSE st.reportedLines]

\* One iteration of the inner loop of Pass 1 on tokens[j] of line i.
\* st holds consecutive, matchedWords, violations and reportedLines.
Pass1Token(st, token, i, line, T) ==
    LET stripped == stripToken(token)
    IN  IF stripped = SKIP THEN st
        ELSE IF stripped # NULL /\ stripped \in ANNOTATION_TOKENS THEN st
        ELSE IF stripped # NULL /\ stripped \in BIP39_WORDS
             THEN [st EXCEPT !.consecutive = @ + 1,
                             !.matchedWords = Append(@, stripped)]
        ELSE LET hit == st.consecutive >= T
             IN  [consecutive   |-> 0,
                  matchedWords  |-> <<>>,
                  violations    |->
                      IF hit
                      THEN Append(st.violations,
                               Violation(i, SliceLast(st.matchedWords,
                                                      st.consecutive), line))
                      ELSE st.violations,
                  reportedLines |->
                      IF hit THEN st.reportedLines \cup {i}
                      ELSE st.reportedLines]

RECURSIVE Pass1Tokens(_, _, _, _, _, _)
Pass1Tokens(st, tokens, j, i, line, T) ==
    IF j > Len(tokens) THEN st
    ELSE Pass1Tokens(Pass1Token(st, tokens[j], i, line, T),
                     tokens, j + 1, i, line, T)

\* The body of the outer loop of Pass 1 for line i, end-of-line check included.
\* p1 holds violations and reportedLines.
Pass1Line(p1, i, line, T) ==
    LET st == Pass1Tokens([consecutive   |-> 0,
                           matchedWords  |-> <<>>,
                           violations    |-> p1.violations,
                           reportedLines |-> p1.reportedLines],
                          Tokens(line), 1, i, line, T)
    IN  IF st.consecutive >= T
        THEN [violations    |-> Append(st.violations,
                                   Violation(i, SliceLast(st.matchedWords,
                                                          st.consecutive), line)),
              reportedLines |-> st.reportedLines \cup {i}]
        ELSE [violations    |-> st.violations,
              reportedLines |-> st.reportedLines]

RECURSIVE Pass1(_, _, _, _)
\* for (let i = 0; i < lines.length; i++), from index i on
Pass1(p1, lines, i, T) ==
    IF i >= Len(lines) THEN p1
    ELSE Pass1(Pass1Line(p1, i, lines[i + 1], T), lines, i + 1, T)

\* lines[idx] of JavaScript: undefined outside the array
UNDEFINED == <<"undefined">>

LineAt(lines, idx) ==
    IF idx >= 0 /\ idx < Len(lines) THEN lines[idx + 1] ELSE UNDEFINED

\* flushCrossLine with the comparison made strict (> for >=)
flushCrossLine_strict(p2, lines, T) ==
    [crossLineWords |-> <<>>,
     crossLineStart |-> -1,
     violations     |->
         IF Len(p2.crossLineWords) > T
         THEN Append(p2.violations,
                  Violation(p2.crossLineStart, p2.crossLineWords,
                            LineAt(lines, p2.crossLineStart)))
         ELSE p2.violations]

\* p2 holds crossLineWords, crossLineStart and violations
flushCrossLine(p2, lines, T) ==
    [crossLineWords |-> <<>>,
     crossLineStart |-> -1,
     violations     |->
         IF Len(p2.crossLineWords) >= T
         THEN Append(p2.violations,
                  Violation(p2.crossLineStart, p2.crossLineWords,
                            LineAt(lines, p2.crossLineStart)))
         ELSE p2.violations]

\* Pass2Line without the test for blank lines
Pass2Line_blankFlushes(p2, reportedLines, lines, i, T) ==
    IF i \in reportedLines THEN flushCrossLine(p2, lines, T)
    ELSE LET a == analyzeLine(lines[i + 1])
         IN  IF a.isBip39Pure /\ Len(a.bip39Words) > 0
             THEN [p2 EXCEPT
                      !.crossLineStart = IF @ = -1 THEN i ELSE @,
                      !.crossLineWords = @ \o a.bip39Words]
             ELSE flushCrossLine(p2, lines, T)

\* Pass2Line moving crossLineStart to every pure line it accumulates
Pass2Line_startAtLast(p2, reportedLines, lines, i, T) ==
    IF i \in reportedLines THEN flushCrossLine(p2, lines, T)
    ELSE IF IsBlank(lines[i + 1]) THEN p2
    ELSE LET a == analyzeLine(lines[i + 1])
         IN  IF a.isBip39Pure /\ Len(a.bip39Words) > 0
             THEN [p2 EXCEPT
                      !.crossLineStart = i,
                      !.crossLineWords = @ \o a.bip39Words]
             ELSE flushCrossLine(p2, lines, T)

\* Pass2Line passing over a line without a word as it does over a blank line
Pass2Line_wordlessTransparent(p2, reportedLines, lines, i, T) ==
    IF i \in reportedLines THEN flushCrossLine(p2, lines, T)
    ELSE IF IsBlank(lines[i + 1]) THEN p2
    ELSE LET a == analyzeLine(lines[i + 1])
         IN  IF a.isBip39Pure /\ Len(a.bip39Words) > 0
             THEN [p2 EXCEPT
                      !.crossLineStart = IF @ = -1 THEN i ELSE @,
                      !.crossLineWords = @ \o a.bip39Words]
             ELSE IF ~a.isBip39Pure /\ Len(a.bip39Words) = 0
                     /\ analyzeLine(lines[i + 1] \o <<" ", "a", "c", "t">>).isBip39Pure
             THEN p2
             ELSE flushCrossLine(p2, lines, T)

\* Pass2Line examining the lines Pass 1 reported like any other line
Pass2Line_ignoresReported(p2, reportedLines, lines, i, T) ==
    IF IsBlank(lines[i + 1]) THEN p2
    ELSE LET a == analyzeLine(lines[i + 1])
         IN  IF a.isBip39Pure /\ Len(a.bip39Words) > 0
             THEN [p2 EXCEPT
                      !.crossLineStart = IF @ = -1 THEN i ELSE @,
                      !.crossLineWords = @ \o a.bip39Words]
             ELSE flushCrossLine(p2, lines, T)

\* The body of the loop of Pass 2 for line i.
Pass2Line(p2, reportedLines, lines, i, T) ==
    IF i \in reportedLines THEN flushCrossLine(p2, lines, T)
    ELSE IF IsBlank(lines[i + 1]) THEN p2
    ELSE LET a == analyzeLine(lines[i + 1])
         IN  IF a.isBip39Pure /\ Len(a.bip39Words) > 0
             THEN [p2 EXCEPT
                      !.crossLineStart = IF @ = -1 THEN i ELSE @,
                      !.crossLineWords = @ \o a.bip39Words]
             ELSE flushCrossLine(p2, lines, T)

RECURSIVE Pass2_noFinalFlush(_, _, _, _, _)
\* Pass2 without the flush after the loop
Pass2_noFinalFlush(p2, reportedLines, lines, i, T) ==
    IF i >= Len(lines) THEN p2
    ELSE Pass2_noFinalFlush(Pass2Line(p2, reportedLines, lines, i, T),
                            reportedLines, lines, i + 1, T)

RECURSIVE Pass2(_, _, _, _, _)
Pass2(p2, reportedLines, lines, i, T) ==
    IF i >= Len(lines) THEN flushCrossLine(p2, lines, T)
    ELSE Pass2(Pass2Line(p2, reportedLines, lines, i, T),
               reportedLines, lines, i + 1, T)

\* detectBip39Sequences returning the violations of Pass 2 before those of
\* Pass 1
detectBip39Sequences_pass2First(c, T) ==
    IF c = <<>> THEN <<>>
    ELSE LET lines == SplitOn(c, "\n")
             p1    == Pass1([violations |-> <<>>, reportedLines |-> {}],
                            lines, 0, T)
             p2    == Pass2([crossLineWords |-> <<>>, crossLineStart |-> -1,
                             violations |-> <<>>],
                            p1.reportedLines, lines, 0, T)
         IN  p2.violations \o p1.violations

detectBip39Sequences(c, T) ==
    IF c = <<>> THEN <<>>
    ELSE LET lines == SplitOn(c, "\n")
             p1    == Pass1([violations |-> <<>>, reportedLines |-> {}],
                            lines, 0, T)
             p2    == Pass2([crossLineWords |-> <<>>, crossLineStart |-> -1,
                             violations |-> p1.violations],
                            p1.reportedLines, lines, 0, T)
         IN  p2.violations

---------------------------------------------------------------------------
(* Inputs *)

\* the longest input, in tokens
MaxTokens == 3

\* the largest threshold
MaxThreshold == 2

\* The tokens inputs are assembled from, by name, with the class the
\* documentation gives each: "V" a vocabulary word that is no annotation label,
\* "N" a word outside the vocabulary, "A" an annotation label, "S" a token
\* without a letter, "B" a token with a non-letter inside its core, "D" a token
\* whose core is a word and whose stripped-off ends hold a digit.
TokenText ==
    [act        |-> <<"a","c","t">>,
     zoo        |-> <<"z","o","o">>,
     add        |-> <<"a","d","d">>,
     q_add      |-> <<"\"","A","d","d","\"",",">>,
     the        |-> <<"t","h","e">>,
     skip       |-> <<"s","k","i","p">>,
     num        |-> <<"1",".">>,
     dashes     |-> <<"-","-","-">>,
     act_zoo    |-> <<"a","c","t","-","z","o","o">>,
     cant       |-> <<"c","a","n","'","t">>,
     act2zoo    |-> <<"a","c","t","2","z","o","o">>,
     act1       |-> <<"a","c","t","1">>,
     zoo_idx    |-> <<"z","o","o","[","0","]">>,
     one_add    |-> <<"1",".","a","d","d">>,
     word       |-> <<"w","o","r","d">>,
     words      |-> <<"w","o","r","d","s">>,
     mnemonic   |-> <<"m","n","e","m","o","n","i","c">>,
     seed       |-> <<"s","e","e","d">>,
     phrase     |-> <<"p","h","r","a","s","e">>,
     key        |-> <<"k","e","y">>,
     backup     |-> <<"b","a","c","k","u","p">>,
     recovery   |-> <<"r","e","c","o","v","e","r","y">>,
     secret     |-> <<"s","e","c","r","e","t">>,
     passphrase |-> <<"p","a","s","s","p","h","r","a","s","e">>,
     Seed_colon |-> <<"S","e","e","d",":">>,
     ZOO        |-> <<"Z","O","O">>,
     The        |-> <<"T","h","e">>]

TokenKind ==
    [act |-> "V", zoo |-> "V", add |-> "V", q_add |-> "V",
     the |-> "N", skip |-> "N",
     num |-> "S", dashes |-> "S",
     act_zoo |-> "B", cant |-> "B", act2zoo |-> "B",
     act1 |-> "D", zoo_idx |-> "D", one_add |-> "D",
     word |-> "A", words |-> "A", mnemonic |-> "A", seed |-> "A",
     phrase |-> "A", key |-> "A", backup |-> "A", recovery |-> "A",
     secret |-> "A", passphrase |-> "A", Seed_colon |-> "A",
     ZOO |-> "V", The |-> "N"]

\* the lowercase core of a token of class V or D
TokenWord ==
    [act |-> <<"a","c","t">>, zoo |-> <<"z","o","o">>, add |-> <<"a","d","d">>,
     q_add |-> <<"a","d","d">>, act1 |-> <<"a","c","t">>,
     zoo_idx |-> <<"z","o","o">>, one_add |-> <<"a","d","d">>,
     ZOO |-> <<"z","o","o">>]

\* what is written between two tokens: a space; a line break; and a line break
\* followed by a whitespace-only line (gap) or by an empty line (empty)
SepText ==
    [sp    |-> <<" ">>,
     nl    |-> <<"\n">>,
     gap   |-> <<"\n", " ", "\t", "\n">>,
     empty |-> <<"\n", "\n">>]

RECURSIVE Render(_, _)
\* the text of tokens ts written with separators ss (one fewer than tokens)
Render(ts, ss) ==
    IF ts = <<>> THEN <<>>
    ELSE IF Len(ts) = 1 THEN TokenText[ts[1]]
    ELSE TokenText[ts[1]] \o SepText[ss[1]] \o Render(Tail(ts), Tail(ss))

\* the inputs of up to maxN tokens of pool written with separators of
\* sepPool, and the thresholds from 1 to MaxThreshold
InitUpTo(maxN, pool, sepPool) ==
    /\ pc = "start"
    /\ \E n \in 0..maxN :
         /\ toks \in [1..n -> pool]
         /\ seps \in [1..(IF n = 0 THEN 0 ELSE n - 1) -> sepPool]
    /\ content = Render(toks, seps)
    /\ threshold \in 1..MaxThreshold
    /\ violations = <<>>
    /\ addedLines = <<>>
    /\ lineMap = <<>>
    /\ calls = <<>>
    /\ diff = <<>>
    /\ NoRun
    /\ NoSetup

\* the inputs of up to MaxTokens tokens
InitWith(pool, sepPool) == InitUpTo(MaxTokens, pool, sepPool)

\* one token of each class, every layout
Init ==
    InitWith({"act", "zoo", "the", "skip", "num", "seed", "act_zoo"},
             {"sp", "nl", "gap"})

\* the caller runs the detector on its text
Detect ==
    /\ pc = "start"
    /\ violations' = detectBip39Sequences(content, threshold)
    /\ pc' = "done"
    /\ UNCHANGED <<toks, seps, content, threshold, addedLines, lineMap, calls,
                   diff>>
    /\ UNCHANGED runVars
    /\ UNCHANGED setupVars

Next == Detect

Spec == Init /\ [][Next]_vars

\* punctuated, quoted, hyphenated and digit-bearing tokens, on one or more lines
InitTokens ==
    InitWith({"act", "q_add", "the", "act_zoo", "cant", "act2zoo",
              "act1", "zoo_idx", "one_add"},
             {"sp", "nl"})

SpecTokens == InitTokens /\ [][Next]_vars

\* the ten annotation labels and one vocabulary word, on one or more lines
InitLabels ==
    InitWith({"word", "words", "mnemonic", "seed", "phrase", "key", "backup",
              "recovery", "secret", "passphrase", "act"},
             {"sp", "nl"})

SpecLabels == InitLabels /\ [][Next]_vars

\* the inputs whose edits are compared: vocabulary words, a word outside the
\* vocabulary and a label, on one or more lines
InitEdit ==
    InitWith({"act", "zoo", "the", "seed"}, {"sp", "nl"})

SpecEdit == InitEdit /\ [][Next]_vars

\* tokens in lower, upper and mixed case, on one or more lines
InitCase ==
    InitWith({"act", "ZOO", "The", "Seed_colon"}, {"sp", "nl"})

SpecCase == InitCase /\ [][Next]_vars

\* Inputs with the thresholds scan-repo hands over unvalidated from
\* --threshold: zero and negative ones as well as positive ones.
InitAnyThreshold ==
    /\ pc = "start"
    /\ \E n \in 0..MaxTokens :
         /\ toks \in [1..n -> {"act", "the", "num"}]
         /\ seps \in [1..(IF n = 0 THEN 0 ELSE n - 1) -> {"sp", "nl", "gap"}]
    /\ content = Render(toks, seps)
    /\ threshold \in (0 - MaxThreshold)..MaxThreshold
    /\ violations = <<>>
    /\ addedLines = <<>>
    /\ lineMap = <<>>
    /\ calls = <<>>
    /\ diff = <<>>
    /\ NoRun
    /\ NoSetup

SpecAnyThreshold == InitAnyThreshold /\ [][Next]_vars

\* the longest input among those with several violations
MaxOrderTokens == 4

\* inputs long enough to hold a cross-line run and a single-line run
InitOrder ==
    InitUpTo(MaxOrderTokens, {"act", "zoo", "the"}, {"sp", "nl", "gap"})

SpecOrder == InitOrder /\ [][Next]_vars

\* the most calls made before the last one
MaxCalls == 2

\* the texts a caller hands over in a series of calls, as tokens and separators
CallInputs ==
    { << <<"act", "zoo">>, <<"sp">> >>, << <<"act", "zoo">>, <<"nl">> >>,
      << <<"act", "the">>, <<"sp">> >>, << <<"act">>, <<>> >> }

\* the first of a series of calls
InitCalls ==
    /\ pc = "start"
    /\ \E in \in CallInputs : toks = in[1] /\ seps = in[2]
    /\ content = Render(toks, seps)
    /\ threshold \in 1..MaxThreshold
    /\ violations = <<>>
    /\ addedLines = <<>>
    /\ lineMap = <<>>
    /\ calls = <<>>
    /\ diff = <<>>
    /\ NoRun
    /\ NoSetup

\* DetectAgain with the violations array kept from one call to the next
DetectAgain_sharedViolations ==
    /\ pc = "done"
    /\ Len(calls) < MaxCalls
    /\ calls' = Append(calls, [content |-> content, threshold |-> threshold,
                               violations |-> violations])
    /\ \E in \in CallInputs : toks' = in[1] /\ seps' = in[2]
    /\ content' = Render(toks', seps')
    /\ threshold' \in 1..MaxThreshold
    /\ violations' = violations \o detectBip39Sequences(content', threshold')
    /\ UNCHANGED <<pc, addedLines, lineMap, diff>>
    /\ UNCHANGED runVars
    /\ UNCHANGED setupVars

\* the caller, done with one text, runs the detector on the next one (the next
\* file of a scan); each call starts from an empty violations array
DetectAgain ==
    /\ pc = "done"
    /\ Len(calls) < MaxCalls
    /\ calls' = Append(calls, [content |-> content, threshold |-> threshold,
                               violations |-> violations])
    /\ \E in \in CallInputs : toks' = in[1] /\ seps' = in[2]
    /\ content' = Render(toks', seps')
    /\ threshold' \in 1..MaxThreshold
    /\ violations' = detectBip39Sequences(content', threshold')
    /\ UNCHANGED <<pc, addedLines, lineMap, diff>>
    /\ UNCHANGED runVars
    /\ UNCHANGED setupVars

NextCalls == Detect \/ DetectAgain

SpecCalls == InitCalls /\ [][NextCalls]_vars

----------------------------------------------------------------------------
(* check-staged.ts: the added lines of a staged diff, joined into one text *)

\* the line buildContentBlock writes between non-contiguous added lines,
\* as an empty line
SENTINEL_empty == <<>>

\* the line buildContentBlock writes between non-contiguous added lines
SENTINEL ==
    <<"-","-","-","n","o","m","o","n","i","c","-",
      "s","e","n","t","i","n","e","l","-","-","-">>

RECURSIVE Join(_, _)
\* contentLines.join(sep)
Join(strs, sep) ==
    IF strs = <<>> THEN <<>>
    ELSE IF Len(strs) = 1 THEN strs[1]
    ELSE strs[1] \o <<sep>> \o Join(Tail(strs), sep)

RECURSIVE buildContentLines(_, _, _)
\* the loop of buildContentBlock from added line i on (indices from 1)
buildContentLines(al, i, blk) ==
    IF i > Len(al) THEN blk
    ELSE LET gap  == /\ i > 1
                     /\ al[i].fileLineNumber # al[i - 1].fileLineNumber + 1
             blk1 == IF gap
                     THEN [contentLines |-> Append(blk.contentLines, SENTINEL),
                           lineMap      |-> Append(blk.lineMap, -1)]
                     ELSE blk
         IN  buildContentLines(al, i + 1,
                 [contentLines |-> Append(blk1.contentLines, al[i].text),
                  lineMap      |-> Append(blk1.lineMap, al[i].fileLineNumber)])

\* buildContentBlock without the lineMap entries of the sentinel lines
buildContentBlock_noSentinelEntry(al) ==
    LET blk == buildContentLines(al, 1, [contentLines |-> <<>>, lineMap |-> <<>>])
    IN  [content |-> Join(blk.contentLines, "\n"),
         lineMap |-> SelectSeq(blk.lineMap, LAMBDA n : n # -1)]

buildContentBlock(al) ==
    LET blk == buildContentLines(al, 1, [contentLines |-> <<>>, lineMap |-> <<>>])
    IN  [content |-> Join(blk.contentLines, "\n"), lineMap |-> blk.lineMap]

\* fileLineNumber taking the entry of lineMap before the line's own
fileLineNumber_previousEntry(lm, v) ==
    LET blockIndex == v.lineNumber - 1
    IN  IF blockIndex = 0 THEN lm[1]
        ELSE IF blockIndex < Len(lm) THEN lm[blockIndex] ELSE lm[Len(lm)]

\* main maps a violation's line of the block to a line of the file
fileLineNumber(lm, v) ==
    LET blockIndex == v.lineNumber - 1
    IN  IF blockIndex < Len(lm) THEN lm[blockIndex + 1] ELSE lm[Len(lm)]

\* the most tokens of a staged diff's added lines
MaxStagedTokens == 4

\* the largest threshold a staged diff is checked with
MaxStagedThreshold == 4

RECURSIVE AddedLinesFrom(_, _, _, _)
\* The added lines a diff holds for tokens ts from token k on: separator "sp"
\* keeps the next token on the same added line, "nl" starts the next line of
\* the file, "hunk" starts an added line three file lines further down.
AddedLinesFrom(ts, ss, k, acc) ==
    IF k > Len(ts) THEN acc
    ELSE IF k = 1
         THEN AddedLinesFrom(ts, ss, 2,
                  <<[fileLineNumber |-> 1, text |-> TokenText[ts[1]]]>>)
    ELSE LET last == acc[Len(acc)]
         IN  IF ss[k - 1] = "sp"
             THEN AddedLinesFrom(ts, ss, k + 1,
                      [acc EXCEPT ![Len(acc)].text =
                                      @ \o <<" ">> \o TokenText[ts[k]]])
             ELSE AddedLinesFrom(ts, ss, k + 1,
                      Append(acc,
                             [fileLineNumber |->
                                  last.fileLineNumber
                                      + (IF ss[k - 1] = "nl" THEN 1 ELSE 3),
                              text |-> TokenText[ts[k]]]))

\* the staged diffs: up to MaxStagedTokens tokens, on added lines that follow
\* one another in the file or lie in different hunks
InitStaged ==
    /\ pc = "staged"
    /\ \E n \in 0..MaxStagedTokens :
         /\ toks \in [1..n -> {"act", "zoo", "the"}]
         /\ seps \in [1..(IF n = 0 THEN 0 ELSE n - 1) -> {"sp", "nl", "hunk"}]
    /\ addedLines = AddedLinesFrom(toks, seps, 1, <<>>)
    /\ threshold \in 1..MaxStagedThreshold
    /\ content = <<>>
    /\ lineMap = <<>>
    /\ violations = <<>>
    /\ calls = <<>>
    /\ diff = <<>>
    /\ NoRun
    /\ NoSetup

\* main builds the content block of a file that has added lines
BuildContentBlock ==
    /\ pc = "staged"
    /\ Len(addedLines) # 0
    /\ content' = buildContentBlock(addedLines).content
    /\ lineMap' = buildContentBlock(addedLines).lineMap
    /\ pc' = "start"
    /\ UNCHANGED <<toks, seps, threshold, violations, addedLines, calls, diff>>
    /\ UNCHANGED runVars
    /\ UNCHANGED setupVars

NextStaged == BuildContentBlock \/ Detect

SpecStaged == InitStaged /\ [][NextStaged]_vars

----------------------------------------------------------------------------
(* check-staged.ts: the added lines of a unified diff *)

\* the regular expression \d
Digits == {"0","1","2","3","4","5","6","7","8","9"}

\* line.startsWith(prefix)
startsWith(line, prefix) ==
    Len(line) >= Len(prefix) /\ SubSeq(line, 1, Len(prefix)) = prefix

RECURSIVE SkipRun(_, _, _)
\* the first position from k on whose character is not in set
SkipRun(s, k, set) ==
    IF k <= Len(s) /\ s[k] \in set THEN SkipRun(s, k + 1, set) ELSE k

\* Matching a piece of a regular expression at position k of s gives the
\* position after the piece, or 0 when the piece (or one before it) fails.
\* One or more characters of set: \s+ and \d+
MatchRun(s, k, set) ==
    IF k = 0 THEN 0
    ELSE IF SkipRun(s, k, set) = k THEN 0 ELSE SkipRun(s, k, set)

\* the literal text lit
MatchLit(s, k, lit) ==
    IF k = 0 \/ k + Len(lit) - 1 > Len(s) THEN 0
    ELSE IF SubSeq(s, k, k + Len(lit) - 1) = lit THEN k + Len(lit) ELSE 0

\* the optional group (?:,\d+)?
MatchCount(s, k) ==
    IF k = 0 THEN 0
    ELSE IF MatchRun(s, MatchLit(s, k, <<",">>), Digits) = 0 THEN k
    ELSE MatchRun(s, MatchLit(s, k, <<",">>), Digits)

\* line.match(/^@@\s+-\d+(?:,\d+)?\s+\+(\d+)(?:,\d+)?\s+@@/): the text of
\* group 1, or null
hunkMatch(line) ==
    LET p1  == MatchLit(line, 1, <<"@", "@">>)
        p2  == MatchRun(line, p1, Whitespace)
        p3  == MatchLit(line, p2, <<"-">>)
        p4  == MatchRun(line, p3, Digits)
        p5  == MatchCount(line, p4)
        p6  == MatchRun(line, p5, Whitespace)
        p7  == MatchLit(line, p6, <<"+">>)
        p8  == MatchRun(line, p7, Digits)
        p9  == MatchCount(line, p8)
        p10 == MatchRun(line, p9, Whitespace)
        p11 == MatchLit(line, p10, <<"@", "@">>)
    IN  IF p11 = 0 THEN NULL ELSE SubSeq(line, p7, p8 - 1)

\* the value of a decimal digit
DigitValue(c) ==
    CASE c = "0" -> 0 [] c = "1" -> 1 [] c = "2" -> 2 [] c = "3" -> 3
      [] c = "4" -> 4 [] c = "5" -> 5 [] c = "6" -> 6 [] c = "7" -> 7
      [] c = "8" -> 8 [] c = "9" -> 9

RECURSIVE parseInt(_)
\* parseInt(s, 10) for a string of decimal digits
parseInt(s) ==
    IF s = <<>> THEN 0
    ELSE 10 * parseInt(SubSeq(s, 1, Len(s) - 1)) + DigitValue(s[Len(s)])

\* The body of the loop of extractAddedLines for one line of the diff.
\* st holds result and currentLine.
extractLine(st, line) ==
    IF hunkMatch(line) # NULL
    THEN [st EXCEPT !.currentLine = parseInt(hunkMatch(line))]
    ELSE IF startsWith(line, <<"+","+","+">>) \/ startsWith(line, <<"-","-","-">>)
         THEN st
    ELSE IF startsWith(line, <<"+">>)
         THEN [result      |-> Append(st.result,
                                   [fileLineNumber |-> st.currentLine,
                                    text |-> Slice(line, 1, Len(line))]),
               currentLine |-> st.currentLine + 1]
    ELSE IF startsWith(line, <<"-">>) THEN st
    ELSE [st EXCEPT !.currentLine = @ + 1]

RECURSIVE extractLines(_, _, _)
\* for (const line of diff.split('\n')), from line i on (indices from 1)
extractLines(st, lines, i) ==
    IF i > Len(lines) THEN st
    ELSE extractLines(extractLine(st, lines[i]), lines, i + 1)

extractAddedLines(d) ==
    extractLines([result |-> <<>>, currentLine |-> 0], SplitOn(d, "\n"), 1).result

\* the most lines of the hunks of a diff
MaxDiffLines == 4

\* The lines the hunks of a diff are assembled from, by name: two hunk
\* headers (new-file start 3, with counts; new-file start 10, without counts
\* and with trailing text), the added lines "act" and "++x", the removed line
\* "zoo", the context line "the" and the marker that follows a line of a file
\* without a final newline.
DiffLineText ==
    [h3      |-> <<"@","@"," ","-","1",",","2"," ","+","3",",","2"," ","@","@">>,
     h10     |-> <<"@","@"," ","-","8"," ","+","1","0"," ","@","@"," ","f","n">>,
     add_act |-> <<"+","a","c","t">>,
     add_pp  |-> <<"+","+","+","x">>,
     rem     |-> <<"-","z","o","o">>,
     ctx     |-> <<" ","t","h","e">>,
     marker  |-> <<"\\"," ","N","o"," ","n","e","w","l","i","n","e"," ","a","t"," ","e","n","d"," ","o","f"," ","f","i","l","e">>]

\* what each line is: "H" hunk header, "A" added, "R" removed, "C" context,
\* "M" marker
DiffLineKind ==
    [h3 |-> "H", h10 |-> "H", add_act |-> "A", add_pp |-> "A", rem |-> "R",
     ctx |-> "C", marker |-> "M"]

\* the new-file start a hunk header gives
DiffLineStart == [h3 |-> 3, h10 |-> 10]

\* the text of an added line of the file
DiffLineAdded == [add_act |-> <<"a","c","t">>, add_pp |-> <<"+","+","x">>]

\* the lines git writes before the first hunk of a file
DiffHeader ==
    <<<<"d","i","f","f"," ","-","-","g","i","t"," ","a","/","f"," ","b","/","f">>,
      <<"-","-","-"," ","a","/","f">>,
      <<"+","+","+"," ","b","/","f">>>>

\* the diff git prints for the hunk lines ts: header, hunks, final newline
RenderDiff(ts) ==
    Join(DiffHeader \o [k \in 1..Len(ts) |-> DiffLineText[ts[k]]], "\n")
        \o <<"\n">>

\* the staged diffs of one file: up to MaxDiffLines hunk lines, the first of
\* them a hunk header
InitDiff ==
    /\ pc = "diff"
    /\ \E n \in 0..MaxDiffLines :
         toks \in {ts \in [1..n -> DOMAIN DiffLineText] :
                      n > 0 => DiffLineKind[ts[1]] = "H"}
    /\ seps = <<>>
    /\ diff = RenderDiff(toks)
    /\ NoRun
    /\ NoSetup
    /\ threshold \in 1..MaxThreshold
    /\ content = <<>>
    /\ addedLines = <<>>
    /\ lineMap = <<>>
    /\ violations = <<>>
    /\ calls = <<>>

\* main extracts the added lines of a file's diff
ExtractAddedLines ==
    /\ pc = "diff"
    /\ addedLines' = extractAddedLines(diff)
    /\ pc' = "staged"
    /\ UNCHANGED <<toks, seps, content, threshold, violations, lineMap, calls,
                   diff>>
    /\ UNCHANGED runVars
    /\ UNCHANGED setupVars

\* the most added lines of a list handed to buildContentBlock
MaxBlockLines == 3

\* the largest line number of an added line
MaxFileLine == 3

\* the texts of added lines: a word, the empty text, and the very text
\* buildContentBlock writes between non-contiguous lines
BlockTexts == {<<"a","c","t">>, <<>>, SENTINEL}

\* every list of up to MaxBlockLines added lines, with any line numbers
InitBlock ==
    /\ pc = "staged"
    /\ \E n \in 0..MaxBlockLines :
         addedLines \in [1..n -> [fileLineNumber : 1..MaxFileLine,
                                 text : BlockTexts]]
    /\ toks = <<>>
    /\ seps = <<>>
    /\ threshold = 1
    /\ content = <<>>
    /\ lineMap = <<>>
    /\ violations = <<>>
    /\ calls = <<>>
    /\ diff = <<>>
    /\ NoRun
    /\ NoSetup

SpecBlock == InitBlock /\ [][BuildContentBlock]_vars

NextDiff == ExtractAddedLines \/ BuildContentBlock \/ Detect

SpecDiff == InitDiff /\ [][NextDiff]_vars

---------------------------------------------------------------------------
(* check-staged.ts and scan-repo.ts: the runs of the command line tools *)

\* the decimal digits from 1 on
DigitChars == <<"1", "2", "3", "4", "5", "6", "7", "8", "9">>

\* the text of a number from 1 to 9, as an environment variable holds it
EnvOf(n) == <<DigitChars[n]>>

\* getThreshold of check-staged.ts on the value env of BIP39_THRESHOLD:
\* parseInt(env, 10) reads an optional sign and the digits after it, and is
\* NaN without a digit there
getThreshold(env) ==
    IF env = UNSET THEN 5
    ELSE LET first == IF env # <<>> /\ env[1] \in {"+", "-"} THEN 2 ELSE 1
             last  == SkipRun(env, first, Digits) - 1
             value == parseInt(SubSeq(env, first, last))
             parsed == IF env # <<>> /\ env[1] = "-" THEN 0 - value ELSE value
         IN  IF last < first \/ parsed < 1 THEN 5 ELSE parsed

\* the most files of a run
MaxFiles == 2

\* The staged diffs of the files of a commit: one added line "act", two added
\* lines "act", a removed line only, and no diff at all.
StagedDiffs ==
    {RenderDiff(<<"h3", "add_act">>), RenderDiff(<<"h3", "add_act", "add_act">>),
     RenderDiff(<<"h3", "rem">>), <<>>}

\* the hook starts on the staged files
InitStagedRun ==
    /\ pc = "file"
    /\ \E n \in 0..MaxFiles :
         files \in [1..n -> [file : 1..n, diff : StagedDiffs]]
    /\ \A k \in 1..Len(files) : files[k].file = k
    /\ fileIndex = 1
    /\ BIP39_THRESHOLD \in {UNSET} \cup {EnvOf(n) : n \in 1..MaxThreshold}
    /\ threshold = getThreshold(BIP39_THRESHOLD)
    /\ allViolations = <<>>
    /\ jsonOutput = FALSE
    /\ exitCode = -1
    /\ report = <<>>
    /\ toks = <<>> /\ seps = <<>> /\ content = <<>> /\ violations = <<>>
    /\ addedLines = <<>> /\ lineMap = <<>> /\ calls = <<>> /\ diff = <<>>
    /\ NoSetup

\* main of check-staged takes the diff of the next file; a file without a
\* diff is passed over
GetStagedDiff ==
    /\ pc = "file"
    /\ fileIndex <= Len(files)
    /\ diff' = files[fileIndex].diff
    /\ IF diff' = <<>>
       THEN pc' = "file" /\ fileIndex' = fileIndex + 1
       ELSE pc' = "diff" /\ UNCHANGED fileIndex
    /\ UNCHANGED <<toks, seps, content, threshold, violations, addedLines,
                   lineMap, calls, files, allViolations, jsonOutput, exitCode,
                   report>>
    /\ UNCHANGED setupVars
    /\ UNCHANGED BIP39_THRESHOLD

\* main of check-staged passes over a file whose diff has no added line
SkipFile ==
    /\ pc = "staged"
    /\ Len(addedLines) = 0
    /\ pc' = "file"
    /\ fileIndex' = fileIndex + 1
    /\ UNCHANGED <<toks, seps, content, threshold, violations, addedLines,
                   lineMap, calls, diff, files, allViolations, jsonOutput,
                   exitCode, report>>
    /\ UNCHANGED setupVars
    /\ UNCHANGED BIP39_THRESHOLD

\* main of check-staged pushes the violations of the file, with the file and
\* the line of the file, and goes to the next file
Collect ==
    /\ pc = "done"
    /\ allViolations' =
           allViolations \o
           [k \in 1..Len(violations) |->
               [file         |-> files[fileIndex].file,
                lineNumber   |-> fileLineNumber(lineMap, violations[k]),
                matchedWords |-> violations[k].matchedWords]]
    /\ calls' = Append(calls, [content |-> content, threshold |-> threshold,
                               violations |-> violations])
    /\ pc' = "file"
    /\ fileIndex' = fileIndex + 1
    /\ UNCHANGED <<toks, seps, content, threshold, violations, addedLines,
                   lineMap, diff, files, jsonOutput, exitCode, report>>
    /\ UNCHANGED setupVars
    /\ UNCHANGED BIP39_THRESHOLD

\* main of check-staged, all files done: prints every collected violation and
\* exits with 1 if there is one, with 0 otherwise
ExitStaged ==
    /\ pc = "file"
    /\ fileIndex > Len(files)
    /\ report' = allViolations
    /\ exitCode' = IF Len(allViolations) > 0 THEN 1 ELSE 0
    /\ pc' = "exited"
    /\ UNCHANGED <<toks, seps, content, threshold, violations, addedLines,
                   lineMap, calls, diff, files, fileIndex, allViolations,
                   jsonOutput>>
    /\ UNCHANGED setupVars
    /\ UNCHANGED BIP39_THRESHOLD

\* the NUL character, written as one element of a string
NUL == "\\0"

\* isBinary finding no file binary
isBinary_never(c) == FALSE

\* content.includes('\0')
isBinary(c) == \E k \in 1..Len(c) : c[k] = NUL

\* The files of a scan: what each is ("text", "binary" or "unreadable"),
\* whether readFileSync returns, and what it returns.
ScannedFiles ==
    {[kind |-> "text", readable |-> TRUE,
      content |-> Render(<<"act", "zoo">>, <<"sp">>)],
     [kind |-> "text", readable |-> TRUE,
      content |-> Render(<<"act", "zoo">>, <<"nl">>)],
     [kind |-> "text", readable |-> TRUE, content |-> Render(<<"the">>, <<>>)],
     [kind |-> "binary", readable |-> TRUE,
      content |-> Render(<<"act", "zoo">>, <<"sp">>) \o <<NUL>>],
     [kind |-> "unreadable", readable |-> FALSE, content |-> <<>>]}

\* scan-repo starts on its list of files, with or without --json
InitScan ==
    /\ pc = "scan"
    /\ \E n \in 0..MaxFiles :
         \E fs \in [1..n -> ScannedFiles] :
            files = [k \in 1..n |->
                        [file |-> k, kind |-> fs[k].kind,
                         readable |-> fs[k].readable, content |-> fs[k].content]]
    /\ fileIndex = 1
    /\ threshold \in 1..MaxThreshold
    /\ jsonOutput \in BOOLEAN
    /\ allViolations = <<>>
    /\ exitCode = -1
    /\ report = <<>>
    /\ toks = <<>> /\ seps = <<>> /\ content = <<>> /\ violations = <<>>
    /\ addedLines = <<>> /\ lineMap = <<>> /\ calls = <<>> /\ diff = <<>>
    /\ BIP39_THRESHOLD = UNSET
    /\ NoSetup

\* One iteration of the loop of scanFiles: a file that cannot be read or is
\* binary is passed over, any other is scanned and its violations are pushed
\* with the file.
ScanFile ==
    /\ pc = "scan"
    /\ fileIndex <= Len(files)
    /\ IF ~files[fileIndex].readable \/ isBinary(files[fileIndex].content)
       THEN UNCHANGED <<content, violations, allViolations, calls>>
       ELSE /\ content' = files[fileIndex].content
            /\ violations' = detectBip39Sequences(content', threshold)
            /\ allViolations' =
                   allViolations \o
                   [k \in 1..Len(violations') |->
                       [file         |-> files[fileIndex].file,
                        lineNumber   |-> violations'[k].lineNumber,
                        matchedWords |-> violations'[k].matchedWords,
                        line         |-> violations'[k].line]]
            /\ calls' = Append(calls, [content |-> content',
                                       threshold |-> threshold,
                                       violations |-> violations'])
    /\ fileIndex' = fileIndex + 1
    /\ UNCHANGED <<pc, toks, seps, threshold, addedLines, lineMap, diff, files,
                   jsonOutput, exitCode, report>>
    /\ UNCHANGED setupVars
    /\ UNCHANGED BIP39_THRESHOLD

\* ExitScan exiting with 0 whenever --json is given
ExitScan_jsonExitsZero ==
    /\ pc = "scan"
    /\ fileIndex > Len(files)
    /\ report' = allViolations
    /\ exitCode' = IF jsonOutput THEN 0
                   ELSE IF Len(allViolations) > 0 THEN 1 ELSE 0
    /\ pc' = "exited"
    /\ UNCHANGED <<toks, seps, content, threshold, violations, addedLines,
                   lineMap, calls, diff, files, fileIndex, allViolations,
                   jsonOutput>>
    /\ UNCHANGED setupVars
    /\ UNCHANGED BIP39_THRESHOLD

\* main of scan-repo, scanFiles having returned: with --json the violations
\* are written as JSON, without it each is printed; the status is 1 if there
\* is a violation and 0 otherwise
ExitScan ==
    /\ pc = "scan"
    /\ fileIndex > Len(files)
    /\ report' = allViolations
    /\ exitCode' = IF jsonOutput
                   THEN (IF Len(allViolations) > 0 THEN 1 ELSE 0)
                   ELSE IF Len(allViolations) > 0 THEN 1 ELSE 0
    /\ pc' = "exited"
    /\ UNCHANGED <<toks, seps, content, threshold, violations, addedLines,
                   lineMap, calls, diff, files, fileIndex, allViolations,
                   jsonOutput>>
    /\ UNCHANGED setupVars
    /\ UNCHANGED BIP39_THRESHOLD

InitRun == InitStagedRun \/ InitScan

NextRun ==
    \/ GetStagedDiff
    \/ ExtractAddedLines
    \/ SkipFile
    \/ BuildContentBlock
    \/ Detect
    \/ Collect
    \/ ExitStaged
    \/ ScanFile
    \/ ExitScan

SpecRun == InitRun /\ [][NextRun]_vars

---------------------------------------------------------------------------
(* setup.sh: installation of the pre-commit hook.  A line of the hook file *)
(* is a sequence of pieces of text, so that grep -F (a fixed string found  *)
(* anywhere in a line) and grep '^#!/' are computed on the line.           *)

\* the most runs of setup.sh in a project
MaxRuns == 3

\* the most lines of the pre-commit hook before the first run
MaxHookLines == 2

\* HOOK_LINE of the Node.js branch and of the Bash branch
HOOK_LINE(node) ==
    IF node THEN <<"npx tsx scripts/nomonic/check-staged.ts">>
    ELSE <<"./scripts/nomonic/check-bip39-seeds.sh">>

\* the comment line written above HOOK_LINE
HOOK_COMMENT == <<"# Check for BIP39 seed phrases (nomonic)">>

\* the first line of a hook file written by the Bash branch
SHEBANG == <<"#!/", "usr/bin/env bash">>

\* grep -qF finding the fixed string in no file
grepqF_never(fixed, lines) == FALSE

\* grep -qF "$fixed" file: some line of the file holds the fixed string
grepqF(fixed, lines) ==
    \E k \in 1..Len(lines) :
        \E i \in 1..(Len(lines[k]) - Len(fixed) + 1) :
            SubSeq(lines[k], i, i + Len(fixed) - 1) = fixed

RECURSIVE commandSubstitution(_)
\* $(cat file): the lines of the file without the empty lines at its end
commandSubstitution(lines) ==
    IF lines # <<>> /\ lines[Len(lines)] = <<>>
    THEN commandSubstitution(SubSeq(lines, 1, Len(lines) - 1))
    ELSE lines

\* echo "$EXISTING": the lines of the value, one empty line for an empty value
echo(value) == IF value = <<>> THEN <<(<<>>)>> ELSE value

\* grep -v '^#!/': the lines that do not start with "#!/"
grepvShebang(lines) ==
    SelectSeq(lines, LAMBDA l : ~(l # <<>> /\ l[1] = "#!/"))

\* The Husky branch on the hook file f: nothing if HOOK_LINE is in the file,
\* the two lines and an empty line put before an existing file, a new file of
\* the two lines otherwise.
huskyPreCommit(f) ==
    IF f.kind = "file" /\ grepqF(HOOK_LINE(TRUE), f.lines)
    THEN [kind |-> "file", lines |-> f.lines, executable |-> f.executable,
          exit |-> 0]
    ELSE IF f.kind = "file"
    THEN [kind |-> "file",
          lines |-> <<HOOK_COMMENT, HOOK_LINE(TRUE), <<>> >>
                        \o echo(commandSubstitution(f.lines)),
          executable |-> f.executable,
          exit |-> 0]
    ELSE [kind |-> "file", lines |-> <<HOOK_COMMENT, HOOK_LINE(TRUE)>>,
          executable |-> FALSE, exit |-> 0]

\* The Bash branch on the hook file f: a symbolic link is left alone, as is a
\* file with HOOK_LINE in it; an existing file gets the header before its
\* lines other than "#!/" lines (and the script ends there with status 1 when
\* grep -v selects no line, under set -e, before chmod +x is reached); a new
\* file is the header.  chmod +x makes the file executable.
gitPreCommit(f) ==
    IF f.kind = "symlink"
    THEN [kind |-> "symlink", lines |-> f.lines, executable |-> f.executable,
          exit |-> 0]
    ELSE IF f.kind = "file" /\ grepqF(HOOK_LINE(FALSE), f.lines)
    THEN [kind |-> "file", lines |-> f.lines, executable |-> f.executable,
          exit |-> 0]
    ELSE IF f.kind = "file"
    THEN LET kept == grepvShebang(echo(commandSubstitution(f.lines)))
         IN  [kind |-> "file",
              lines |-> <<SHEBANG, HOOK_COMMENT, <<>>, HOOK_LINE(FALSE)>> \o kept,
              executable |-> IF kept = <<>> THEN f.executable ELSE TRUE,
              exit |-> IF kept = <<>> THEN 1 ELSE 0]
    ELSE [kind |-> "file",
          lines |-> <<SHEBANG, <<>>, HOOK_COMMENT, HOOK_LINE(FALSE)>>,
          executable |-> TRUE, exit |-> 0]

\* What husky init leaves as .husky/pre-commit: husky is not part of the
\* repository, so either its sample hook or no hook file.
huskyInit ==
    {[kind |-> "file", lines |-> << <<"npm test">> >>, executable |-> TRUE,
      exit |-> -1],
     [kind |-> "absent", lines |-> <<>>, executable |-> FALSE, exit |-> -1]}

\* the lines a hook file is made of before the first run
HookLinePool(node) ==
    {<<"#!/", "bin/sh">>, <<"npm test">>, <<>>, HOOK_LINE(node),
     <<"# ">> \o HOOK_LINE(node)}

\* the hook files before the first run
HookFilesBefore(node) ==
    {[kind |-> "absent", lines |-> <<>>, executable |-> FALSE, exit |-> -1]} \cup
    {[kind |-> k, lines |-> ls, executable |-> x, exit |-> -1] :
        k \in (IF node THEN {"file"} ELSE {"file", "symlink"}),
        ls \in UNION {[1..n -> HookLinePool(node)] : n \in 0..MaxHookLines},
        x \in BOOLEAN}

\* a project before the first run of setup.sh
InitSetup ==
    /\ pc = "setup"
    /\ packageJson \in BOOLEAN
    /\ huskyDir \in (IF packageJson THEN BOOLEAN ELSE {FALSE})
    /\ \E f \in HookFilesBefore(packageJson) :
         /\ huskyDir \/ ~packageJson \/ f.kind = "absent"
         /\ hookFiles = <<f>>
    /\ toks = <<>> /\ seps = <<>> /\ content = <<>> /\ violations = <<>>
    /\ addedLines = <<>> /\ lineMap = <<>> /\ calls = <<>> /\ diff = <<>>
    /\ threshold = 1
    /\ NoRun

\* one run of setup.sh: the hook file it leaves is put at the end of hookFiles
Setup ==
    /\ pc = "setup"
    /\ Len(hookFiles) <= MaxRuns
    /\ LET f == hookFiles[Len(hookFiles)]
       IN  IF packageJson
           THEN /\ \E g \in (IF huskyDir THEN {f} ELSE huskyInit) :
                      hookFiles' = Append(hookFiles, huskyPreCommit(g))
                /\ huskyDir' = TRUE
           ELSE /\ hookFiles' = Append(hookFiles, gitPreCommit(f))
                /\ UNCHANGED huskyDir
    /\ UNCHANGED <<pc, toks, seps, content, threshold, violations, addedLines,
                   lineMap, calls, diff, packageJson>>
    /\ UNCHANGED runVars

SpecSetup == InitSetup /\ [][Setup]_vars

---------------------------------------------------------------------------
(* check-bip39-seeds.sh: the Bash hook.  Word splitting of an unquoted      *)
(* expansion is modelled without pathname expansion, that is, for a working *)
(* directory in which no file name matches a token.                         *)

\* the bracket expression [a-zA-Z]
IsLetter(c) == c \in LowerLetters \cup UpperLetters

\* the values "SKIP" and "BREAK" of STRIP_RESULT; a word is in lower case
STRIP_SKIP == <<"SKIP">>
STRIP_BREAK == <<"BREAK">>

\* strip_token: leading is what stands before the first letter, trailing what
\* stands after the last, core what is between
strip_token(t) ==
    LET letters == {k \in 1..Len(t) : IsLetter(t[k])}
    IN  IF letters = {} THEN STRIP_SKIP
        ELSE LET first    == CHOOSE k \in letters : \A m \in letters : k <= m
                 last     == CHOOSE k \in letters : \A m \in letters : k >= m
                 leading  == SubSeq(t, 1, first - 1)
                 trailing == SubSeq(t, last + 1, Len(t))
                 core     == SubSeq(t, first, last)
             IN  IF \E k \in 1..Len(core) : ~IsLetter(core[k]) THEN STRIP_BREAK
                 ELSE IF \/ \E k \in 1..Len(leading) : leading[k] \in Digits
                         \/ \E k \in 1..Len(trailing) : trailing[k] \in Digits
                      THEN STRIP_BREAK
                 ELSE toLowerCase(core)

\* is_annotation_token: the case pattern of the ten labels
is_annotation_token(w) ==
    w \in { <<"w","o","r","d">>, <<"w","o","r","d","s">>,
            <<"m","n","e","m","o","n","i","c">>, <<"s","e","e","d">>,
            <<"p","h","r","a","s","e">>, <<"k","e","y">>,
            <<"b","a","c","k","u","p">>, <<"r","e","c","o","v","e","r","y">>,
            <<"s","e","c","r","e","t">>,
            <<"p","a","s","s","p","h","r","a","s","e">> }

\* is_bip39: grep -qx of the word in the wordlist file
is_bip39(w) == w \in BIP39_WORDS

\* THRESHOLD=${BIP39_THRESHOLD:-8} on the value env of the variable
THRESHOLD(env) == IF env = UNSET \/ env = <<>> THEN 8 ELSE parseInt(env)

\* report_violation: what is printed for one violation
report_violation(reports, line_num, count, words) ==
    Append(reports, [lineNumber |-> line_num, count |-> count,
                     matchedWords |-> words])

\* flush_cross_line; g holds cross_words, cross_count, cross_start_line,
\* current_line and the reports printed so far
flush_cross_line(g, T) ==
    [g EXCEPT
        !.reports = IF g.cross_count >= T
                    THEN report_violation(g.reports, g.cross_start_line,
                                          g.cross_count, g.cross_words)
                    ELSE g.reports,
        !.cross_words = <<>>,
        !.cross_count = 0,
        !.cross_start_line = 0]

\* The body of the first loop over the tokens of an added line.  st holds
\* consecutive, matched_words, line_reported, line_bip39_count,
\* line_has_non_bip39_word, line_has_any_word and the reports.
scanToken(st, token, current_line, T) ==
    LET r   == strip_token(token)
        hit == st.consecutive >= T
        reset == [st EXCEPT
                     !.reports = IF hit
                                 THEN report_violation(st.reports, current_line,
                                          st.consecutive, st.matched_words)
                                 ELSE st.reports,
                     !.line_reported = IF hit THEN 1 ELSE @,
                     !.consecutive = 0,
                     !.matched_words = <<>>,
                     !.line_has_non_bip39_word = 1]
    IN  IF r = STRIP_SKIP THEN st
        ELSE IF r = STRIP_BREAK THEN [reset EXCEPT !.line_has_any_word = 1]
        ELSE IF is_annotation_token(r) THEN st
        ELSE IF is_bip39(r)
             THEN [st EXCEPT !.line_has_any_word = 1,
                             !.consecutive = @ + 1,
                             !.line_bip39_count = @ + 1,
                             !.matched_words = Append(@, r)]
        ELSE [reset EXCEPT !.line_has_any_word = 1]

RECURSIVE scanTokens(_, _, _, _, _)
\* for token in $lower_content, from token j on
scanTokens(st, tokens, j, current_line, T) ==
    IF j > Len(tokens) THEN st
    ELSE scanTokens(scanToken(st, tokens[j], current_line, T),
                    tokens, j + 1, current_line, T)

RECURSIVE crossWordsOf(_, _)
\* the second loop over the tokens of a pure line: its vocabulary words
crossWordsOf(tokens, j) ==
    IF j > Len(tokens) THEN <<>>
    ELSE LET r == strip_token(tokens[j])
         IN  IF r = STRIP_SKIP \/ r = STRIP_BREAK THEN crossWordsOf(tokens, j + 1)
             ELSE IF is_annotation_token(r) THEN crossWordsOf(tokens, j + 1)
             ELSE IF is_bip39(r) THEN <<r>> \o crossWordsOf(tokens, j + 1)
             ELSE crossWordsOf(tokens, j + 1)

\* the branch of the loop for an added line whose text after the "+" is text
addedLine(g, text, T) ==
    LET tokens == SplitWs(toLowerCase(text))
        st == scanTokens([consecutive |-> 0, matched_words |-> <<>>,
                          line_reported |-> 0, line_bip39_count |-> 0,
                          line_has_non_bip39_word |-> 0,
                          line_has_any_word |-> 0, reports |-> g.reports],
                         tokens, 1, g.current_line, T)
        st2 == IF st.consecutive >= T
               THEN [st EXCEPT
                        !.reports = report_violation(st.reports, g.current_line,
                                        st.consecutive, st.matched_words),
                        !.line_reported = 1]
               ELSE st
        g1 == [g EXCEPT !.reports = st2.reports]
        g2 == IF IsBlank(text) THEN g1
              ELSE IF st2.line_has_any_word = 0 /\ st2.line_bip39_count = 0
                   THEN g1
              ELSE IF st2.line_reported = 1 THEN flush_cross_line(g1, T)
              ELSE IF /\ st2.line_has_any_word = 1
                      /\ st2.line_has_non_bip39_word = 0
                      /\ st2.line_bip39_count > 0
                   THEN LET ws == crossWordsOf(tokens, 1)
                        IN  [g1 EXCEPT
                                !.cross_start_line =
                                    IF g1.cross_count = 0 THEN g1.current_line
                                    ELSE @,
                                !.cross_words = @ \o ws,
                                !.cross_count = @ + Len(ws)]
              ELSE flush_cross_line(g1, T)
    IN  [g2 EXCEPT !.current_line = @ + 1]

\* [[ "$line" =~ ^@@\ -[0-9]+(,[0-9]+)?\ \+([0-9]+)(,[0-9]+)?\ @@ ]]: the
\* text of group 2, or null
bashHunkMatch(line) ==
    LET p1  == MatchLit(line, 1, <<"@", "@", " ", "-">>)
        p2  == MatchRun(line, p1, Digits)
        p3  == MatchCount(line, p2)
        p4  == MatchLit(line, p3, <<" ", "+">>)
        p5  == MatchRun(line, p4, Digits)
        p6  == MatchCount(line, p5)
        p7  == MatchLit(line, p6, <<" ", "@", "@">>)
    IN  IF p7 = 0 THEN NULL ELSE SubSeq(line, p4, p5 - 1)

\* the body of the loop over the lines of the diff of a file
diffLine(g, line, T) ==
    IF bashHunkMatch(line) # NULL
    THEN flush_cross_line([g EXCEPT !.current_line = parseInt(bashHunkMatch(line))], T)
    ELSE IF startsWith(line, <<"+","+","+">>) \/ startsWith(line, <<"-","-","-">>)
         THEN g
    ELSE LET g1 == IF startsWith(line, <<"+">>)
                   THEN addedLine(g, SubSeq(line, 2, Len(line)), T)
                   ELSE IF ~startsWith(line, <<"-">>)
                        THEN [flush_cross_line(g, T) EXCEPT !.current_line = @ + 1]
                   ELSE g
         IN  IF startsWith(line, <<"-">>) THEN flush_cross_line(g1, T) ELSE g1

RECURSIVE diffLines(_, _, _, _)
\* while IFS= read -r line, from line i on
diffLines(g, lines, i, T) ==
    IF i > Len(lines) THEN g
    ELSE diffLines(diffLine(g, lines[i], T), lines, i + 1, T)

\* the reports of the hook for one staged file whose diff is d; a file
\* without a diff is passed over
checkFile(d, T) ==
    IF d = <<>> THEN <<>>
    ELSE flush_cross_line(
             diffLines([cross_words |-> <<>>, cross_count |-> 0,
                        cross_start_line |-> 0, current_line |-> 0,
                        reports |-> <<>>],
                       commandSubstitution(SplitOn(d, "\n")), 1, T),
             T).reports

\* the decimal digits by value
DecimalDigits == <<"0", "1", "2", "3", "4", "5", "6", "7", "8", "9">>

RECURSIVE ToDecimal(_)
\* the decimal text of a natural number
ToDecimal(n) ==
    IF n < 10 THEN <<DecimalDigits[n + 1]>>
    ELSE ToDecimal(n \div 10) \o <<DecimalDigits[(n % 10) + 1]>>

\* The diff git prints for a file whose lines are all added, the lines being
\* those of text c: header, one hunk that starts at line 1, final newline.
\* Without a line there is no diff.
AddedDiff(c) ==
    IF c = <<>> THEN <<>>
    ELSE LET ls   == SplitOn(c, "\n")
             hunk == <<"@","@"," ","-","0",",","0"," ","+","1">>
                     \o (IF Len(ls) = 1 THEN <<>>
                         ELSE <<",">> \o ToDecimal(Len(ls)))
                     \o <<" ","@","@">>
         IN  Join(DiffHeader \o <<hunk>> \o [k \in 1..Len(ls) |-> <<"+">> \o ls[k]],
                  "\n") \o <<"\n">>

\* The Bash hook runs on the staged diff of one file, by itself or beside a
\* call of the detector on the same lines: it prints its reports and exits
\* with 1 if there is one, with 0 otherwise.
CheckBip39Seeds ==
    /\ files = <<>>
    /\ exitCode = -1
    /\ report' = checkFile(diff, THRESHOLD(BIP39_THRESHOLD))
    /\ exitCode' = IF Len(report') > 0 THEN 1 ELSE 0
    /\ UNCHANGED <<pc, toks, seps, content, threshold, violations, addedLines,
                   lineMap, calls, diff, fileIndex, files, allViolations,
                   jsonOutput, BIP39_THRESHOLD>>
    /\ UNCHANGED setupVars

\* DEFAULT_THRESHOLD of detect.ts, as scan-repo.ts imports it
DEFAULT_THRESHOLD == 5

\* detectBip39Sequences(content): threshold takes its default value
detectBip39SequencesDefault(c) == detectBip39Sequences(c, 5)

\* a caller runs the detector on its text without a threshold
DetectDefault ==
    /\ pc = "call"
    /\ violations' = detectBip39SequencesDefault(content)
    /\ pc' = "returned"
    /\ UNCHANGED <<toks, seps, content, threshold, addedLines, lineMap, calls,
                   diff>>
    /\ UNCHANGED runVars
    /\ UNCHANGED setupVars

\* the most tokens of a text scanned at the default threshold
MaxDefaultTokens == 6

\* Every entry point on the same text, no threshold configured: the text is
\* up to MaxDefaultTokens tokens "act" and "the", all on one line or one on
\* each line.  pc tells the entry point: "call" a call of the detector (the
\* Bash hook runs beside it on the diff that adds the lines), "file" the hook
\* check-staged on that diff, "scan" scan-repo on the file.
InitDefault ==
    /\ \E n \in 0..MaxDefaultTokens :
         /\ toks \in [1..n -> {"act", "the"}]
         /\ seps \in {[k \in 1..(IF n = 0 THEN 0 ELSE n - 1) |-> s] :
                         s \in {"sp", "nl"}}
    /\ BIP39_THRESHOLD = UNSET
    /\ \/ /\ pc = "call"
          /\ content = Render(toks, seps)
          /\ diff = AddedDiff(content)
          /\ files = <<>>
          /\ threshold = 0
       \/ /\ pc = "file"
          /\ content = <<>>
          /\ diff = <<>>
          /\ files = <<[file |-> 1, diff |-> AddedDiff(Render(toks, seps))]>>
          /\ threshold = getThreshold(BIP39_THRESHOLD)
       \/ /\ pc = "scan"
          /\ content = <<>>
          /\ diff = <<>>
          /\ files = <<[file |-> 1, kind |-> "text", readable |-> TRUE,
                        content |-> Render(toks, seps)]>>
          /\ threshold = DEFAULT_THRESHOLD
    /\ fileIndex = (IF files = <<>> THEN 0 ELSE 1)
    /\ violations = <<>> /\ addedLines = <<>> /\ lineMap = <<>> /\ calls = <<>>
    /\ allViolations = <<>> /\ jsonOutput = FALSE /\ exitCode = -1
    /\ report = <<>>
    /\ NoSetup

NextDefault ==
    \/ DetectDefault
    \/ CheckBip39Seeds
    \/ GetStagedDiff
    \/ ExtractAddedLines
    \/ BuildContentBlock
    \/ Detect
    \/ Collect
    \/ ExitStaged
    \/ ScanFile
    \/ ExitScan

SpecDefault == InitDefault /\ [][NextDefault]_vars

\* a text of up to MaxTokens tokens as both detectors are given it: the
\* TypeScript detector the lines, the Bash hook the diff that adds them, the
\* threshold in BIP39_THRESHOLD
InitParity ==
    /\ pc = "start"
    /\ \E n \in 0..MaxTokens :
         /\ toks \in [1..n -> {"act", "the", "seed", "num", "act_zoo", "act1",
                               "skip"}]
         /\ seps \in [1..(IF n = 0 THEN 0 ELSE n - 1) -> {"sp", "nl"}]
    /\ content = Render(toks, seps)
    /\ diff = AddedDiff(content)
    /\ threshold \in 1..MaxThreshold
    /\ BIP39_THRESHOLD = EnvOf(threshold)
    /\ violations = <<>> /\ addedLines = <<>> /\ lineMap = <<>> /\ calls = <<>>
    /\ files = <<>> /\ fileIndex = 0 /\ allViolations = <<>>
    /\ jsonOutput = FALSE /\ exitCode = -1 /\ report = <<>>
    /\ NoSetup

NextParity == Detect \/ CheckBip39Seeds

SpecParity == InitParity /\ [][NextParity]_vars

---------------------------------------------------------------------------
(* Properties *)

\* the words of the tokens ts (all of class V or D), in order
WordsOf(ts) == [k \in 1..Len(ts) |-> TokenWord[ts[k]]]

\* the texts of the input's tokens, in order
TextsOfTokens == [k \in 1..Len(toks) |-> TokenText[toks[k]]]

\* every token of the input is of one of the classes ks
AllOfKind(ks) == \A k \in 1..Len(toks) : TokenKind[toks[k]] \in ks

RECURSIVE LinesFrom(_, _, _)
LinesFrom(ts, ss, cur) ==
    IF ts = <<>> THEN <<>>
    ELSE IF Len(ts) = 1 THEN <<Append(cur, ts[1])>>
    ELSE IF ss[1] = "sp"
         THEN LinesFrom(Tail(ts), Tail(ss), Append(cur, ts[1]))
    ELSE IF ss[1] = "nl"
         THEN <<Append(cur, ts[1])>> \o LinesFrom(Tail(ts), Tail(ss), <<>>)
    ELSE <<Append(cur, ts[1]), <<>> >> \o LinesFrom(Tail(ts), Tail(ss), <<>>)

\* the lines of the input as written, each the list of its tokens; a
\* whitespace-only line is the empty list
InputLines == LinesFrom(toks, seps, <<>>)

RECURSIVE RunsFrom(_, _, _)
RunsFrom(lt, k, cur) ==
    LET closed == IF cur = <<>> THEN <<>> ELSE <<cur>>
    IN  IF k > Len(lt) THEN closed
        ELSE IF TokenKind[lt[k]] = "V"
             THEN RunsFrom(lt, k + 1, Append(cur, TokenWord[lt[k]]))
        ELSE IF TokenKind[lt[k]] \in {"S", "A"} THEN RunsFrom(lt, k + 1, cur)
        ELSE closed \o RunsFrom(lt, k + 1, <<>>)

\* the maximal runs of consecutive vocabulary words of a line, as the
\* documentation defines them: tokens without a letter and annotation labels
\* are passed over, every other token that is no vocabulary word ends the run
RunsOf(lt) == RunsFrom(lt, 1, <<>>)

\* C1: threshold boundary.  An input that is nothing but a run of vocabulary
\* words (no annotation label), on one line or spread over lines, yields no
\* violation when it has threshold - 1 words, and exactly one violation, whose
\* matchedWords are all the words in order, when it has threshold words.
C1_ThresholdBoundary ==
    (pc = "done" /\ AllOfKind({"V"})) =>
        /\ Len(toks) = threshold - 1 => violations = <<>>
        /\ Len(toks) = threshold =>
              /\ Len(violations) = 1
              /\ violations[1].matchedWords = WordsOf(toks)

\* a run of exactly threshold words, one per line, reported by the cross-line
\* pass
C1_Witness ==
    /\ pc = "done"
    /\ threshold = 2
    /\ toks = <<"act", "zoo">>
    /\ seps = <<"nl">>
    /\ Len(violations) = 1
    /\ violations[1].matchedWords = <<TokenText.act, TokenText.zoo>>

\* every line with a token on it holds a token of class N, B or D, and no
\* line holds threshold or more consecutive vocabulary words
MixedLinesOnly ==
    \A i \in 1..Len(InputLines) :
        LET lt == InputLines[i]
        IN  /\ lt # <<>> =>
                \E k \in 1..Len(lt) : TokenKind[lt[k]] \in {"N", "B", "D"}
            /\ \A r \in 1..Len(RunsOf(lt)) : Len(RunsOf(lt)[r]) < threshold

\* C4: mixed-line suppression.  When every non-blank line holds a Broken or
\* non-vocabulary word token and no line holds threshold or more consecutive
\* vocabulary words, the detector returns no violation.
C4_MixedLineSuppression ==
    (pc = "done" /\ MixedLinesOnly) => violations = <<>>

\* the tokens of class V among ts, in order
RECURSIVE VocabOf(_)
VocabOf(ts) ==
    IF ts = <<>> THEN <<>>
    ELSE IF TokenKind[Head(ts)] = "V" THEN <<Head(ts)>> \o VocabOf(Tail(ts))
    ELSE VocabOf(Tail(ts))

\* The input is made of vocabulary words, annotation labels and letter-free
\* tokens only; every line with a token on it holds a vocabulary word or an
\* annotation label (so a line without a word is an annotation-only line); and
\* no line holds threshold or more vocabulary words.
LabelledPureLines ==
    /\ AllOfKind({"V", "A", "S"})
    /\ \A i \in 1..Len(InputLines) :
          LET lt == InputLines[i]
          IN  /\ lt # <<>> =>
                  \E k \in 1..Len(lt) : TokenKind[lt[k]] \in {"V", "A"}
              /\ Len(VocabOf(lt)) < threshold

\* C8: annotation-only lines are transparent in cross-line detection.  Pure
\* lines separated only by blank lines and annotation-only lines accumulate
\* into one run: at least threshold words in all give exactly one violation
\* holding all of them in order, fewer give none.
C8_AnnotationOnlyLinesTransparent ==
    (pc = "done" /\ LabelledPureLines) =>
        IF Len(VocabOf(toks)) >= threshold
        THEN /\ Len(violations) = 1
             /\ violations[1].matchedWords = WordsOf(VocabOf(toks))
        ELSE violations = <<>>

\* where and what each violation reports, the text of the line left out
Findings(vs) ==
    [k \in 1..Len(vs) |-> <<vs[k].lineNumber, vs[k].matchedWords>>]

\* the input's tokens with "the", a plain word outside the vocabulary, in
\* place of every token of class kind
WithTheFor(kind) ==
    [k \in 1..Len(toks) |-> IF TokenKind[toks[k]] = kind THEN "the" ELSE toks[k]]

\* C5: interior punctuation disqualifies.  A token with a non-letter inside its
\* core acts as a word outside the vocabulary does: with "the" in its place the
\* detector reports the same lines and the same words (so it resets the Pass 1
\* counter, makes its line non-pure and gives matchedWords nothing); an input
\* of such tokens alone yields no violation.
C5_InteriorPunctuationDisqualifies ==
    pc = "done" =>
        /\ Findings(violations) =
              Findings(detectBip39Sequences(Render(WithTheFor("B"), seps),
                                            threshold))
        /\ AllOfKind({"B"}) => violations = <<>>

\* a hyphenated token between two vocabulary words on a line at threshold 2:
\* the run is broken and nothing is reported
C5_Witness ==
    /\ pc = "done"
    /\ threshold = 2
    /\ toks = <<"act", "act_zoo", "act">>
    /\ seps = <<"sp", "sp">>
    /\ violations = <<>>

\* C6: a digit-bearing boundary disqualifies.  A token whose stripped-off
\* leading or trailing part holds a digit acts as a word outside the vocabulary
\* does: with "the" in its place the detector reports the same lines and the
\* same words; an input of such tokens alone yields no violation.
C6_DigitBoundaryDisqualifies ==
    pc = "done" =>
        /\ Findings(violations) =
              Findings(detectBip39Sequences(Render(WithTheFor("D"), seps),
                                            threshold))
        /\ AllOfKind({"D"}) => violations = <<>>

\* the words all violations report, as a set
MatchedSet ==
    UNION { {violations[v].matchedWords[k] :
                k \in 1..Len(violations[v].matchedWords)} :
            v \in 1..Len(violations) }

\* the input is one line of exactly threshold tokens, each the plain text of a
\* vocabulary word other than "seed", one of them at least an annotation label
RunOfVocabularyLabels ==
    /\ Len(toks) = threshold
    /\ \A k \in 1..Len(seps) : seps[k] = "sp"
    /\ \A k \in 1..Len(toks) :
          TokenText[toks[k]] \in BIP39_WORDS \ {TokenText.seed}
    /\ \E k \in 1..Len(toks) : TokenKind[toks[k]] = "A"

\* C9 as stated: "seed" is the only annotation label in the vocabulary, so
\* precedence of annotation removes no other vocabulary word from detection:
\* a line of threshold vocabulary words other than "seed" is reported in full.
C9_OnlySeedIsInVocabulary ==
    (pc = "done" /\ RunOfVocabularyLabels) =>
        /\ ANNOTATION_TOKENS \cap BIP39_WORDS = {TokenText.seed}
        /\ Len(violations) = 1
        /\ violations[1].matchedWords = TextsOfTokens

\* C9 as amended: five of the ten annotation labels are in the vocabulary,
\* "word", "seed", "phrase", "key" and "secret"; precedence of annotation
\* removes these five, and no label at all, from detection: no violation ever
\* reports an annotation label.
C9_LabelsInVocabulary ==
    /\ ANNOTATION_TOKENS \cap BIP39_WORDS =
          {TokenText.word, TokenText.seed, TokenText.phrase, TokenText.key,
           TokenText.secret}
    /\ pc = "done" => MatchedSet \cap ANNOTATION_TOKENS = {}

\* the vocabulary word "key" before a vocabulary word at threshold 2: "key" is
\* taken as a label and nothing is reported
C9_Witness ==
    /\ pc = "done"
    /\ threshold = 2
    /\ toks = <<"key", "act">>
    /\ seps = <<"sp">>
    /\ TokenText.key \in BIP39_WORDS
    /\ violations = <<>>

\* the separator lists that differ from ss only by blank lines put in at line
\* breaks: an empty line or a line of a space and a tab
BlankInsertions(ss) ==
    { e \in [1..Len(ss) -> {"sp", "nl", "gap", "empty"}] :
        \A k \in 1..Len(ss) :
            IF ss[k] = "sp" THEN e[k] = "sp" ELSE e[k] # "sp" }

\* C3: blank-line transparency.  Blank lines (empty, or of spaces and tabs) put
\* between the lines of the input change neither the number of violations nor
\* their matchedWords nor the text of the line each reports, and never move a
\* violation to an earlier line.
C3_BlankLineTransparency ==
    pc = "done" =>
        \A e \in BlankInsertions(seps) :
            LET vs == detectBip39Sequences(Render(toks, e), threshold)
            IN  /\ Len(vs) = Len(violations)
                /\ \A k \in 1..Len(vs) :
                      /\ vs[k].matchedWords = violations[k].matchedWords
                      /\ vs[k].line = violations[k].line
                      /\ vs[k].lineNumber >= violations[k].lineNumber

\* an open cross-line run of two words at threshold 2: reported as one
\* violation on line 1 with or without a whitespace-only line in between
C3_Witness ==
    /\ pc = "done"
    /\ threshold = 2
    /\ toks = <<"act", "zoo">>
    /\ seps = <<"nl">>
    /\ Len(violations) = 1
    /\ LET vs == detectBip39Sequences(Render(toks, <<"gap">>), threshold)
       IN  /\ Len(vs) = 1
           /\ vs[1].lineNumber = 1
           /\ vs[1].matchedWords = <<TokenText.act, TokenText.zoo>>

\* ts with token t put in before position k (after the last when k = Len(ts) + 1)
InsertAt(ts, k, t) == SubSeq(ts, 1, k - 1) \o <<t>> \o SubSeq(ts, k, Len(ts))

\* ss with a space put in as separator k
SpaceAt(ss, k) == SubSeq(ss, 1, k - 1) \o <<"sp">> \o SubSeq(ss, k, Len(ss))

\* the texts made from the input by putting token t on a line that holds a
\* token: in front of token k, or behind a token k that ends its line
InsertsOf(t) ==
    { Render(InsertAt(toks, k, t), SpaceAt(seps, k)) : k \in 1..Len(toks) }
    \cup
    { Render(InsertAt(toks, k + 1, t), SpaceAt(seps, k)) :
        k \in {j \in 1..Len(toks) : j = Len(toks) \/ seps[j] # "sp"} }

\* C10: letter-free tokens are transparent.  A token without a letter put at
\* any position of a line that holds a token changes neither the lines nor the
\* words the violations report.
C10_LetterFreeTransparent ==
    pc = "done" =>
        \A t \in {"num", "dashes"} : \A c \in InsertsOf(t) :
            Findings(detectBip39Sequences(c, threshold)) = Findings(violations)

\* a numbered word on each of two lines at threshold 2: one violation with the
\* two words
C10_Witness ==
    /\ pc = "done"
    /\ threshold = 2
    /\ toks = <<"act", "zoo">>
    /\ seps = <<"nl">>
    /\ Len(violations) = 1
    /\ Findings(detectBip39Sequences(
           Render(<<"num", "act", "num", "zoo">>, <<"sp", "nl", "sp">>), 2))
         = << <<1, <<TokenText.act, TokenText.zoo>> >> >>

\* the input's tokens with the letter-free "1." in place of every annotation
\* label
WithNumForLabels ==
    [k \in 1..Len(toks) |-> IF TokenKind[toks[k]] = "A" THEN "num" ELSE toks[k]]

RECURSIVE FileLineOfToken(_)
\* the line of the file that token k of a staged diff is on
FileLineOfToken(k) ==
    IF k = 1 THEN 1
    ELSE FileLineOfToken(k - 1)
             + (IF seps[k - 1] = "sp" THEN 0 ELSE IF seps[k - 1] = "nl" THEN 1 ELSE 3)

\* the tokens that start a run of contiguous added lines
GroupStarts ==
    {k \in 1..Len(toks) : k = 1 \/ seps[k - 1] = "hunk"}

\* the last token of the run of contiguous added lines that token a starts
GroupEnd(a) ==
    CHOOSE b \in a..Len(toks) :
        /\ \A j \in a..(b - 1) : seps[j] # "hunk"
        /\ b = Len(toks) \/ seps[b] = "hunk"

\* what scanning the run of contiguous added lines from token a alone finds,
\* as pairs of file line and words
GroupFindings(a) ==
    LET b  == GroupEnd(a)
        vs == detectBip39Sequences(
                  Render(SubSeq(toks, a, b), SubSeq(seps, a, b - 1)), threshold)
    IN  {<<FileLineOfToken(a) + vs[k].lineNumber - 1, vs[k].matchedWords>> :
             k \in 1..Len(vs)}

\* what scanning the content block finds, as pairs of file line and words
BlockFindings ==
    {<<fileLineNumber(lineMap, violations[k]), violations[k].matchedWords>> :
         k \in 1..Len(violations)}

\* the staged diff is two runs of threshold - 2 vocabulary words, in two hunks
TwoShortRuns ==
    /\ threshold > 2
    /\ Len(toks) = 2 * (threshold - 2)
    /\ AllOfKind({"V"})
    /\ \A j \in 1..Len(seps) : seps[j] = "hunk" <=> j = threshold - 2

\* C7: gap isolation.  Scanning the content block of a staged diff finds
\* exactly what scanning each run of contiguous added lines alone finds, so no
\* violation holds words from both sides of a gap between non-contiguous added
\* lines; no violation is reported on a sentinel line; and two runs of
\* threshold - 2 vocabulary words on either side of a gap yield no violation.
C7_GapIsolation ==
    (pc = "done" /\ addedLines # <<>>) =>
        /\ BlockFindings = UNION {GroupFindings(a) : a \in GroupStarts}
        /\ \A f \in BlockFindings : f[1] # -1
        /\ TwoShortRuns => violations = <<>>

\* two runs of two vocabulary words in two hunks, scanned with threshold four:
\* a sentinel line was written between them and nothing was found
C7_Witness ==
    /\ pc = "done"
    /\ threshold = 4
    /\ TwoShortRuns
    /\ \E i \in 1..Len(lineMap) : lineMap[i] = -1
    /\ violations = <<>>

\* String.prototype.toUpperCase on ASCII text
toUpperCase(s) ==
    [k \in 1..Len(s) |->
        IF s[k] \in LowerLetters
        THEN CHOOSE u \in UpperLetters : LowerOf[u] = s[k]
        ELSE s[k]]

\* s with the case of its character k changed
FlipCaseAt(s, k) ==
    [s EXCEPT ![k] = IF @ \in UpperLetters THEN LowerOf[@]
                     ELSE IF @ \in LowerLetters
                          THEN CHOOSE u \in UpperLetters : LowerOf[u] = @
                          ELSE @]

\* the input in upper case, in lower case, and with the case of any one of its
\* letters changed
CaseVariants ==
    {toUpperCase(content), toLowerCase(content)}
        \cup {FlipCaseAt(content, k) : k \in 1..Len(content)}

\* C11: case insensitivity.  Changing the case of letters of the content
\* changes neither the line numbers nor the matchedWords of the violations,
\* and every matched word is in lower case.
C11_CaseInsensitive ==
    pc = "done" =>
        /\ \A c \in CaseVariants :
              Findings(detectBip39Sequences(c, threshold)) = Findings(violations)
        /\ \A k \in 1..Len(violations) :
              \A j \in 1..Len(violations[k].matchedWords) :
                 \A n \in 1..Len(violations[k].matchedWords[j]) :
                    violations[k].matchedWords[j][n] \in LowerLetters

\* "ZOO act" at threshold 2: one violation with the words zoo and act
C11_Witness ==
    /\ pc = "done"
    /\ threshold = 2
    /\ toks = <<"ZOO", "act">>
    /\ seps = <<"sp">>
    /\ Findings(violations) = << <<1, <<TokenText.zoo, TokenText.act>> >> >>

\* the text of a line that holds the tokens lt, written with single spaces
LineTextOf(lt) == Render(lt, [k \in 1..(Len(lt) - 1) |-> "sp"])

\* the vocabulary words of the tokens lt of a line, in order
LineWords(lt) == WordsOf(SelectSeq(lt, LAMBDA t : TokenKind[t] = "V"))

\* a is a run of successive elements of b
IsInfix(a, b) ==
    \E i \in 0..(Len(b) - Len(a)) : SubSeq(b, i + 1, i + Len(a)) = a

\* a is the beginning of b
IsPrefix(a, b) == Len(a) <= Len(b) /\ SubSeq(b, 1, Len(a)) = a

\* C12: violation location.  Every violation names a line of the content, its
\* line field is the text of that line, and that line is the first to have
\* contributed a word: it holds vocabulary words, and either the matched
\* words are a run of its words (single line) or its words begin the matched
\* words (cross-line run), never a blank or label line before the run.
C12_ViolationLocation ==
    pc = "done" =>
        \A k \in 1..Len(violations) :
            LET v == violations[k]
                L == v.lineNumber
            IN  /\ 1 <= L /\ L <= Len(InputLines)
                /\ InputLines[L] # <<>>
                /\ v.line = LineTextOf(InputLines[L])
                /\ v.matchedWords # <<>>
                /\ LineWords(InputLines[L]) # <<>>
                /\ \/ IsInfix(v.matchedWords, LineWords(InputLines[L]))
                   \/ IsPrefix(LineWords(InputLines[L]), v.matchedWords)

\* a label line, then a whitespace-only line, then two lines of one word each,
\* at threshold 2: the one violation is on line 3, the first line of the run
C12_Witness ==
    /\ pc = "done"
    /\ threshold = 2
    /\ toks = <<"seed", "act", "zoo">>
    /\ seps = <<"gap", "nl">>
    /\ Len(violations) = 1
    /\ violations[1].lineNumber = 3
    /\ violations[1].line = TokenText.act
    /\ violations[1].matchedWords = <<TokenText.act, TokenText.zoo>>

\* violation k is on a line that holds a run of threshold vocabulary words:
\* a single-line violation
IsSingleLine(k) ==
    \E j \in 1..Len(RunsOf(InputLines[violations[k].lineNumber])) :
        Len(RunsOf(InputLines[violations[k].lineNumber])[j]) >= threshold

\* C13: output ordering.  In the returned list every single-line violation
\* comes before every cross-line violation, and within each of the two groups
\* the line numbers do not decrease.  (That the whole list need not be sorted
\* by line number is what the witness shows.)
C13_OutputOrdering ==
    pc = "done" =>
        \A i \in 1..Len(violations) : \A j \in (i + 1)..Len(violations) :
            /\ ~(~IsSingleLine(i) /\ IsSingleLine(j))
            /\ (IsSingleLine(i) <=> IsSingleLine(j)) =>
                   violations[i].lineNumber <= violations[j].lineNumber

\* lines "act", "zoo", "act zoo" at threshold 2: the single-line violation of
\* line 3 is returned before the cross-line violation of line 1
C13_Witness ==
    /\ pc = "done"
    /\ threshold = 2
    /\ toks = <<"act", "zoo", "act", "zoo">>
    /\ seps = <<"nl", "nl", "sp">>
    /\ Len(violations) = 2
    /\ violations[1].lineNumber = 3 /\ IsSingleLine(1)
    /\ violations[2].lineNumber = 1 /\ ~IsSingleLine(2)

\* the calls made so far, the last one included once it has returned
CallsDone ==
    IF pc = "done"
    THEN Append(calls, [content |-> content, threshold |-> threshold,
                        violations |-> violations])
    ELSE calls

RECURSIVE ExpectedFrom(_, _, _, _)
\* The added lines of the new file that the hunk lines ts from line k on
\* describe, cur being the new-file line number of the next line: a hunk
\* header sets it, added and context lines are lines of the new file, removed
\* lines and the marker are not.
ExpectedFrom(ts, k, cur, acc) ==
    IF k > Len(ts) THEN acc
    ELSE IF DiffLineKind[ts[k]] = "H"
         THEN ExpectedFrom(ts, k + 1, DiffLineStart[ts[k]], acc)
    ELSE IF DiffLineKind[ts[k]] = "A"
         THEN ExpectedFrom(ts, k + 1, cur + 1,
                  Append(acc, [fileLineNumber |-> cur,
                               text |-> DiffLineAdded[ts[k]]]))
    ELSE IF DiffLineKind[ts[k]] = "C" THEN ExpectedFrom(ts, k + 1, cur + 1, acc)
    ELSE ExpectedFrom(ts, k + 1, cur, acc)

\* the added lines of the diff, with their line numbers in the new file
ExpectedAdded == ExpectedFrom(toks, 1, 0, <<>>)

\* the added lines have been extracted from a diff
Extracted == pc \in {"staged", "start", "done"} /\ diff # <<>>

\* C15: extractAddedLines line numbering.  Every returned added line carries
\* the number its line has in the new file: the new-file start of its hunk
\* plus the context and added lines of the hunk before it; removed lines and
\* the no-newline marker do not count.
C15_LineNumbering ==
    Extracted =>
        \A k \in 1..Len(addedLines) :
            \E e \in 1..Len(ExpectedAdded) : addedLines[k] = ExpectedAdded[e]

\* C16: extractAddedLines completeness.  The result holds one entry for each
\* added line of the diff body, in diff order, with the line's text, an added
\* line whose text begins with "++" included, and nothing else.
C16_Completeness ==
    Extracted =>
        [k \in 1..Len(addedLines) |-> addedLines[k].text]
            = [e \in 1..Len(ExpectedAdded) |-> ExpectedAdded[e].text]

\* added line i follows a gap: its number is not the number before it plus 1
GapBefore(i) ==
    i > 1 /\ addedLines[i].fileLineNumber # addedLines[i - 1].fileLineNumber + 1

\* the line of the content block that added line i is expected on: one line
\* for each added line up to it and one for each gap up to it
BlockIndex(i) == i + Cardinality({j \in 2..i : GapBefore(j)})

\* the lines of the content block
ContentLines == SplitOn(content, "\n")

\* C17: buildContentBlock alignment.  For a non-empty list of added lines
\* lineMap has one entry for each line of the content; every added line is on
\* its own content line with its fileLineNumber in lineMap; every other line
\* is an inserted sentinel with -1 in lineMap, and these are the only -1
\* entries; a sentinel stands between two successive added lines exactly when
\* the second number is not the first plus 1, never first or last.
C17_BlockAlignment ==
    (pc = "start" /\ addedLines # <<>>) =>
        LET n    == Len(addedLines)
            used == {BlockIndex(i) : i \in 1..n}
        IN  /\ Len(lineMap) = Len(ContentLines)
            /\ Len(ContentLines) = BlockIndex(n)
            /\ BlockIndex(1) = 1
            /\ \A i \in 1..n :
                  /\ ContentLines[BlockIndex(i)] = addedLines[i].text
                  /\ lineMap[BlockIndex(i)] = addedLines[i].fileLineNumber
            /\ \A c \in 1..Len(ContentLines) :
                  /\ c \notin used => ContentLines[c] = SENTINEL
                  /\ lineMap[c] = -1 <=> c \notin used
            /\ \A i \in 2..n :
                  BlockIndex(i) - BlockIndex(i - 1) = (IF GapBefore(i) THEN 2 ELSE 1)

\* an added line 1 and an added line 3 whose own text is the sentinel text:
\* the block has three lines, the second the inserted sentinel, and only it
\* has -1 in lineMap
C17_Witness ==
    /\ pc = "start"
    /\ Len(addedLines) = 2
    /\ addedLines[1].fileLineNumber = 1
    /\ addedLines[2].fileLineNumber = 3
    /\ addedLines[2].text = SENTINEL
    /\ ContentLines = <<addedLines[1].text, SENTINEL, SENTINEL>>
    /\ lineMap = <<1, -1, 3>>

RECURSIVE Reported(_, _)
\* the matchedWords of the violations that the calls cs from call k on
\* returned, in order
Reported(cs, k) ==
    IF k > Len(cs) THEN <<>>
    ELSE [j \in 1..Len(cs[k].violations) |-> cs[k].violations[j].matchedWords]
             \o Reported(cs, k + 1)

RECURSIVE ExpectedScan(_, _)
\* what scanFiles is to return for the first n files: the violations of each
\* text file, in the order of the files, each with its file
ExpectedScan(fs, n) ==
    IF n = 0 THEN <<>>
    ELSE ExpectedScan(fs, n - 1) \o
         (IF fs[n].kind = "text"
          THEN LET vs == detectBip39Sequences(fs[n].content, threshold)
               IN  [k \in 1..Len(vs) |->
                       [file |-> fs[n].file, lineNumber |-> vs[k].lineNumber,
                        matchedWords |-> vs[k].matchedWords, line |-> vs[k].line]]
          ELSE <<>>)

\* the run is a scan of files
IsScan ==
    /\ pc \in {"scan", "exited"}
    /\ \A k \in 1..Len(files) : "kind" \in DOMAIN files[k]

\* C19: scanFiles passes over bad inputs.  A file that cannot be read or
\* that holds a NUL contributes nothing and stops nothing: after any number
\* of files the violations are those of the text files so far, in the order
\* of the files, each with its file, and the scan reaches the end of the list.
C19_ScanFilesSkips ==
    IsScan =>
        /\ allViolations = ExpectedScan(files, fileIndex - 1)
        /\ pc = "exited" => fileIndex = Len(files) + 1

\* an unreadable file, then a binary file: the scan went through both and
\* returned nothing
C19_Witness ==
    /\ pc = "exited"
    /\ IsScan
    /\ Len(files) >= 2
    /\ files[1].kind = "unreadable"
    /\ files[2].kind = "binary"
    /\ Len(calls) = Len(files) - 2
    /\ allViolations = ExpectedScan(files, Len(files))

\* the number of lines of the hook file f that hold HOOK_LINE
HookLineCount(f) ==
    Cardinality({k \in 1..Len(f.lines) :
                    \E i \in 1..Len(f.lines[k]) :
                        <<f.lines[k][i]>> = HOOK_LINE(packageJson)})

\* C20: the installer is idempotent.  From any hook file, after every run
\* from the first on the hook file holds HOOK_LINE no more often than after
\* the first run, the first run adds it at most once, and a run that finds
\* HOOK_LINE in the hook file leaves the file as it is.
C20_InstallerIdempotent ==
    /\ \A n \in 2..Len(hookFiles) :
          HookLineCount(hookFiles[n]) <= HookLineCount(hookFiles[2])
    /\ Len(hookFiles) >= 2 =>
          HookLineCount(hookFiles[2]) <= HookLineCount(hookFiles[1]) + 1
    /\ \A n \in 1..(Len(hookFiles) - 1) :
          hookFiles[n].kind # "absent" /\ HookLineCount(hookFiles[n]) > 0 =>
              /\ hookFiles[n + 1].kind = hookFiles[n].kind
              /\ hookFiles[n + 1].lines = hookFiles[n].lines

\* a hook file of two lines without HOOK_LINE got it in the first run, once,
\* and the second and third run left the file alone
C20_Witness ==
    /\ Len(hookFiles) = 4
    /\ hookFiles[1].kind = "file"
    /\ Len(hookFiles[1].lines) = 2
    /\ HookLineCount(hookFiles[1]) = 0
    /\ HookLineCount(hookFiles[2]) = 1
    /\ hookFiles[3].lines = hookFiles[2].lines
    /\ hookFiles[4].lines = hookFiles[2].lines

RECURSIVE CrossGroups(_, _, _)
\* The groups of pure lines of lines (each the list of its tokens, all of
\* class V, A or S) from line i on: a line without a token is passed over, a
\* line with a vocabulary word joins the open group cur, and a line with
\* tokens but no vocabulary word closes it.
CrossGroups(lines, i, cur) ==
    LET closed == IF cur.words = <<>> THEN <<>> ELSE <<cur>>
    IN  IF i > Len(lines) THEN closed
        ELSE IF lines[i] = <<>> THEN CrossGroups(lines, i + 1, cur)
        ELSE IF VocabOf(lines[i]) # <<>>
             THEN CrossGroups(lines, i + 1,
                      [start |-> IF cur.words = <<>> THEN i ELSE cur.start,
                       words |-> cur.words \o WordsOf(VocabOf(lines[i]))])
        ELSE closed \o CrossGroups(lines, i + 1, [start |-> 0, words |-> <<>>])

\* the groups of at least T words, each as the line it starts on and its words
LongGroups(groups, T) ==
    LET long == SelectSeq(groups, LAMBDA g : Len(g.words) >= T)
    IN  [k \in 1..Len(long) |-> <<long[k].start, long[k].words>>]

\* the input has a line with tokens on it and no vocabulary word among them
HasWordlessLine ==
    \E i \in 1..Len(InputLines) :
        InputLines[i] # <<>> /\ VocabOf(InputLines[i]) = <<>>

LongRuns(lt, i, T) ==
    LET long == SelectSeq(RunsOf(lt), LAMBDA r : Len(r) >= T)
    IN  [k \in 1..Len(long) |-> <<i, long[k]>>]

RECURSIVE SingleLineFindings(_, _, _)
\* what Pass 1 is to report for the lines from line i on
SingleLineFindings(lines, i, T) ==
    IF i > Len(lines) THEN <<>>
    ELSE LongRuns(lines[i], i, T) \o SingleLineFindings(lines, i + 1, T)

\* no token of the input is the word "skip" (which stripToken takes for its
\* own answer 'skip') or of class D
PlainTokens ==
    \A k \in 1..Len(toks) : toks[k] # "skip" /\ TokenKind[toks[k]] # "D"

Claimed(i) == LongRuns(InputLines[i], i, threshold) # <<>>

\* how often the word w is among the words ws
Occurrences(w, ws) == Cardinality({k \in 1..Len(ws) : ws[k] = w})

RECURSIVE AllMatched(_, _)
\* the matchedWords of the violations vs from violation k on, one after another
AllMatched(vs, k) ==
    IF k > Len(vs) THEN <<>> ELSE vs[k].matchedWords \o AllMatched(vs, k + 1)

RECURSIVE WordsOfLines(_, _)
\* the vocabulary words of the lines from line a to line b of the input
WordsOfLines(a, b) ==
    IF a > b THEN <<>>
    ELSE WordsOf(VocabOf(InputLines[a])) \o WordsOfLines(a + 1, b)

\* C24: no double counting.  No violation of the cross-line pass holds a word
\* of a line that holds a run of threshold words (such a line is passed over
\* and ends the open run: a cross-line violation reports the words of a
\* stretch of lines none of which holds such a run), and every vocabulary
\* word is reported at most as often as it stands in the input.
C24_NoDoubleCounting ==
    (pc = "done" /\ PlainTokens) =>
        LET single == SingleLineFindings(InputLines, 1, threshold)
        IN  /\ \A w \in BIP39_WORDS :
                  Occurrences(w, AllMatched(violations, 1))
                      <= Occurrences(w, WordsOf(VocabOf(toks)))
            /\ \A k \in (Len(single) + 1)..Len(violations) :
                  \E b \in violations[k].lineNumber..Len(InputLines) :
                      /\ violations[k].matchedWords =
                            WordsOfLines(violations[k].lineNumber, b)
                      /\ \A i \in violations[k].lineNumber..b : ~Claimed(i)

\* a line of two words between two lines of one word each, at threshold 2:
\* the line in the middle is reported once, by Pass 1, and the words of the
\* lines around it are not put together
C24_Witness ==
    /\ pc = "done"
    /\ threshold = 2
    /\ toks = <<"act", "act", "zoo", "zoo">>
    /\ seps = <<"nl", "sp", "nl">>
    /\ Claimed(2)
    /\ Findings(violations) = << <<2, <<TokenText.act, TokenText.zoo>> >> >>

\* line i of the input is pure and unclaimed: it holds a vocabulary word,
\* nothing but vocabulary words, labels and letter-free tokens, and no run of
\* threshold words
PureUnclaimed(i) ==
    /\ VocabOf(InputLines[i]) # <<>>
    /\ \A k \in 1..Len(InputLines[i]) :
          TokenKind[InputLines[i][k]] \in {"V", "A", "S"}
    /\ ~Claimed(i)

RECURSIVE PureGroups(_, _)
\* The maximal sequences of pure unclaimed lines of the input from line i on,
\* blank lines between them passed over, cur being the open one: each as the
\* line it starts on and the vocabulary words of its lines.
PureGroups(i, cur) ==
    LET closed == IF cur.words = <<>> THEN <<>> ELSE <<cur>>
    IN  IF i > Len(InputLines) THEN closed
        ELSE IF InputLines[i] = <<>> THEN PureGroups(i + 1, cur)
        ELSE IF PureUnclaimed(i)
             THEN PureGroups(i + 1,
                      [start |-> IF cur.words = <<>> THEN i ELSE cur.start,
                       words |-> cur.words \o WordsOf(VocabOf(InputLines[i]))])
        ELSE closed \o PureGroups(i + 1, [start |-> 0, words |-> <<>>])

C26_ViolationShape ==
    pc = "done" =>
        \A k \in 1..Len(violations) :
            /\ violations[k].lineNumber >= 1
            /\ violations[k].line # UNDEFINED

\* the state of the inner loop of Pass 1 after the first j tokens of line
Pass1After(line, j) ==
    Pass1Tokens([consecutive |-> 0, matchedWords |-> <<>>,
                 violations |-> <<>>, reportedLines |-> {}],
                SubSeq(Tokens(line), 1, j), 1, 0, line, threshold)

\* C27: what a violation holds.  Every violation has threshold matchedWords
\* or more, each of them a vocabulary word that is no annotation label and
\* the word of a vocabulary token of the input; and after every token of
\* every line Pass 1 has exactly consecutive words in its buffer, so that the
\* slice it reports is the whole buffer.
C27_MatchedWords ==
    pc = "done" =>
        /\ \A k \in 1..Len(violations) :
              /\ Len(violations[k].matchedWords) >= threshold
              /\ \A m \in 1..Len(violations[k].matchedWords) :
                    /\ violations[k].matchedWords[m]
                          \in BIP39_WORDS \ ANNOTATION_TOKENS
                    /\ \E t \in 1..Len(toks) :
                          /\ TokenKind[toks[t]] = "V"
                          /\ TokenWord[toks[t]] = violations[k].matchedWords[m]
        /\ \A line \in {SplitOn(content, "\n")[i] :
                            i \in 1..Len(SplitOn(content, "\n"))} :
              \A j \in 0..Len(Tokens(line)) :
                  LET st == Pass1After(line, j)
                  IN  /\ Len(st.matchedWords) = st.consecutive
                      /\ SliceLast(st.matchedWords, st.consecutive)
                            = st.matchedWords

\* a label and two vocabulary words on a line, at threshold 2: the violation
\* holds the two words and not the label, which is a vocabulary word too
C27_Witness ==
    /\ pc = "done"
    /\ threshold = 2
    /\ toks = <<"seed", "act", "zoo">>
    /\ seps = <<"sp", "sp">>
    /\ TokenText.seed \in BIP39_WORDS
    /\ Len(violations) = 1
    /\ violations[1].matchedWords = <<TokenText.act, TokenText.zoo>>
    /\ Pass1After(content, 3).consecutive = 2

\* C28: the line the hook reports.  For every violation found in the content
\* block of a staged diff, lineNumber - 1 is an index of lineMap, the entry
\* there is not the -1 of a sentinel line, and the line reported is the
\* fileLineNumber of the added line that the run starts on: the added line on
\* that line of the block, whose text the violation carries and which holds
\* the first matched word.
C28_ReportedFileLine ==
    (pc = "done" /\ addedLines # <<>>) =>
        \A k \in 1..Len(violations) :
            LET v == violations[k]
            IN  /\ v.lineNumber - 1 \in 0..(Len(lineMap) - 1)
                /\ lineMap[v.lineNumber] # -1
                /\ v.line # SENTINEL
                /\ \E j \in 1..Len(addedLines) :
                      /\ BlockIndex(j) = v.lineNumber
                      /\ fileLineNumber(lineMap, v) = addedLines[j].fileLineNumber
                      /\ addedLines[j].text = v.line
                      /\ \E t \in 1..Len(toks) :
                            /\ FileLineOfToken(t) = addedLines[j].fileLineNumber
                            /\ TokenKind[toks[t]] = "V"
                            /\ TokenWord[toks[t]] = v.matchedWords[1]

\* an added line 1 and, in another hunk, added lines 4 and 5 with a
\* vocabulary word each, at threshold 2: the run found on line 3 of the block,
\* after the sentinel line, is reported on line 4 of the file
C28_Witness ==
    /\ pc = "done"
    /\ threshold = 2
    /\ toks = <<"the", "act", "zoo">>
    /\ seps = <<"hunk", "nl">>
    /\ lineMap = <<1, -1, 4, 5>>
    /\ Len(violations) = 1
    /\ violations[1].lineNumber = 3
    /\ fileLineNumber(lineMap, violations[1]) = 4

\* the lines of the hook file f that do not start with "#!/"
NonShebangLines(f) ==
    SelectSeq(f.lines, LAMBDA l : ~(Len(l) > 0 /\ l[1] = "#!/"))

\* ws is what is left of ls when some of its elements are taken out
RECURSIVE IsSubsequence(_, _)
IsSubsequence(ws, ls) ==
    IF ws = <<>> THEN TRUE
    ELSE IF ls = <<>> THEN FALSE
    ELSE IF Head(ws) = Head(ls) THEN IsSubsequence(Tail(ws), Tail(ls))
    ELSE IsSubsequence(ws, Tail(ls))

\* C30: the installer on an existing hook.  In a project without
\* package.json whose .git/hooks/pre-commit is a regular file without the
\* check line, the first run of setup.sh ends with status 0 and leaves a hook
\* that is executable, starts with a shebang line, holds the check line and
\* keeps every line of the previous hook that is no shebang line, whatever
\* the previous hook was.
C30_InstallerOnExistingHook ==
    (/\ Len(hookFiles) >= 2
     /\ ~packageJson
     /\ hookFiles[1].kind = "file"
     /\ HookLineCount(hookFiles[1]) = 0) =>
        /\ hookFiles[2].exit = 0
        /\ hookFiles[2].executable
        /\ hookFiles[2].lines[1][1] = "#!/"
        /\ HookLineCount(hookFiles[2]) = 1
        /\ IsSubsequence(NonShebangLines(hookFiles[1]), hookFiles[2].lines)

\* the text holds five or more consecutive vocabulary words (the texts of
\* SpecDefault are on one line or have one token on each line, so that
\* consecutive tokens are consecutive words of a line or of a run of lines)
FiveInARow ==
    \E i \in 1..(Len(toks) - 4) : \A j \in i..(i + 4) : TokenKind[toks[j]] = "V"

\* C21: with BIP39_THRESHOLD unset and no --threshold flag, every entry point
\* (a call of detect without a threshold, check-staged, scan-repo and the
\* Bash hook) reports a violation exactly when the text holds 5 or more
\* consecutive vocabulary words.
C21_DefaultThreshold ==
    /\ pc = "returned" => ((violations # <<>>) <=> FiveInARow)
    /\ pc = "exited" => ((report # <<>>) <=> FiveInARow)
    /\ (files = <<>> /\ exitCode # -1) =>
           ((report # <<>>) <=> FiveInARow) /\ (exitCode = 1 <=> FiveInARow)

\* the entry points written in TypeScript alone
C21_TypeScriptDefault ==
    /\ pc = "returned" => ((violations # <<>>) <=> FiveInARow)
    /\ pc = "exited" => ((report # <<>>) <=> FiveInARow)

\* what stripToken makes of a token: "skip", "break" or "word"
stripTokenClass(t) ==
    IF stripToken(t) = SKIP THEN "skip"
    ELSE IF stripToken(t) = NULL THEN "break" ELSE "word"

\* what strip_token makes of a token: "skip", "break" or "word"
strip_tokenClass(t) ==
    IF strip_token(t) = STRIP_SKIP THEN "skip"
    ELSE IF strip_token(t) = STRIP_BREAK THEN "break" ELSE "word"

\* start line and matched words of each violation of a list
StartAndWords(vs) == {<<vs[k].lineNumber, vs[k].matchedWords>> : k \in 1..Len(vs)}

\* both detectors have run and report the same violations
C29_SameViolations ==
    (pc = "done" /\ exitCode # -1) =>
        StartAndWords(violations) = StartAndWords(report)

\* strip_token and stripToken make the same of every token of the text
C29_SameClassification ==
    \A k \in 1..Len(toks) :
        strip_tokenClass(toLowerCase(TokenText[toks[k]]))
            = stripTokenClass(toLowerCase(TokenText[toks[k]]))

\* the texts without a token that ends in a digit and without the word "skip"
NoDigitNoSkip == \A k \in 1..Len(toks) : toks[k] \notin {"act1", "skip"}

\* on those texts the detectors differ only where a line holds labels or
\* number-like tokens and nothing else
C29_SameViolationsPlain ==
    (NoDigitNoSkip /\ \A k \in 1..Len(toks) : toks[k] \notin {"seed", "num"})
        => C29_SameViolations

\* C29: on the same added lines of one hunk and with the same threshold >= 1,
\* the Bash hook and the TypeScript detector report the same violations (same
\* start line, same matched words), and strip_token and stripToken classify
\* every token alike as skip, break or word.
C29_Parity == C29_SameViolations /\ C29_SameClassification

====
